---- MODULE Spec2Model ----
(***************************************************************************)
(* A model of the Red Energy integration (custom_components/red_energy):   *)
(*   - the API client's token state machine (api.py),                      *)
(*   - the circuit breaker (error_recovery.py, class CircuitBreaker),      *)
(*   - the error recovery system's handle_error (error_recovery.py),       *)
(*   - the data coordinator (coordinator.py),                              *)
(*   - the validators of the provider's payloads (data_validation.py),     *)
(*   - the calculation cache and the bulk refresh (performance.py).        *)
(* Each subsystem has its own specification over its own group of          *)
(* variables; the other groups stay at their initial values.               *)
(***************************************************************************)
EXTENDS Integers, Sequences, FiniteSets, TLC

VARIABLES
    now,             \* the wall clock (datetime.now() / dt_util.utcnow()), in seconds
    ticks,           \* how many times the clock has advanced (bounded)
    \* ---- RedEnergyAPI (api.py) ----
    access_token,    \* RedEnergyAPI._access_token
    refresh_token,   \* RedEnergyAPI._refresh_token
    token_expires,   \* RedEnergyAPI._token_expires
    auth,            \* the run of authenticate(): position, steps issued, result
    call,            \* the bearer-authenticated API call in flight
    \* ---- CircuitBreaker (error_recovery.py), driven directly ----
    cb,              \* one CircuitBreaker object
    cb_op,           \* the last operation on cb: its name, what it returned, the
                     \* state it found, and the failures since the last success
    \* ---- RedEnergyErrorRecoverySystem (error_recovery.py) ----
    error_history,    \* _error_history: the error records, oldest first
    error_counts,     \* _error_counts: error type -> number of errors handled
    recovery_stats,   \* _recovery_stats
    circuit_breakers, \* _circuit_breakers: circuit key -> CircuitBreaker
    er_call,          \* the async_handle_error call in flight
    raised_type,      \* the error type the host reports in this behaviour
    \* ---- RedEnergyDataCoordinator (coordinator.py) ----
    selected_accounts, \* self.selected_accounts
    services,          \* self.services
    customer_data,     \* self._customer_data
    properties,        \* self._properties
    data,              \* self.data: the published snapshot
    cycles,            \* the runs of _async_update_data in flight, by slot
    cycle_seq,         \* how many runs of _async_update_data have begun
    rotation,          \* the async_refresh_credentials call in flight
    read,              \* the last accessor call and what it returned
    \* ---- the validators (data_validation.py), called directly ----
    raw_properties,    \* the provider's answer to get_properties
    raw_usage,         \* the provider's answer to get_usage_data
    validation,        \* the last validator call and what it returned
    \* ---- DataProcessor and PerformanceMonitor (performance.py) ----
    processed_cache,   \* DataProcessor._processed_cache: key -> (time, result)
    cache_hits,        \* PerformanceMonitor._cache_hits
    cache_misses,      \* PerformanceMonitor._cache_misses
    cache_call,        \* the last get_cached_calculation call
    \* ---- BulkOperationManager (performance.py) ----
    bulk_refresh,      \* the async_bulk_refresh_coordinators call in flight
    \* ---- RedEnergyDataCoordinator._bulk_update_data (coordinator.py) ----
    bulk,              \* the run of _bulk_update_data in flight
    \* ---- ConfigFlow (config_flow.py) ----
    flow               \* the configuration flow and the result of its last step

clockVars == <<now, ticks>>
apiVars == <<access_token, refresh_token, token_expires, auth, call>>
cbVars == <<cb, cb_op>>
erVars ==
    <<error_history, error_counts, recovery_stats, circuit_breakers, er_call,
      raised_type>>
coVars ==
    <<selected_accounts, services, customer_data, properties, data, cycles,
      cycle_seq, rotation, read>>
dvVars == <<raw_properties, raw_usage, validation>>
pcVars == <<processed_cache, cache_hits, cache_misses, cache_call>>
brVars == <<bulk_refresh>>
buVars == <<bulk>>
\* the variables of the performance layer and the bulk paths
pfVars == <<pcVars, brVars, buVars>>
cfVars == <<flow>>
vars == <<clockVars, apiVars, cbVars, erVars, coVars, dvVars, pfVars, cfVars>>

nonClockVars == <<apiVars, cbVars, erVars, coVars, dvVars, pfVars, cfVars>>
\* the variables the API client's actions leave alone
nonApiVars == <<cbVars, erVars, coVars, dvVars, pfVars, cfVars>>
\* the variables the circuit breaker's actions leave alone
nonCbVars == <<apiVars, erVars, coVars, dvVars, pfVars, cfVars>>
\* the variables the error recovery system's actions leave alone
nonErVars == <<apiVars, cbVars, coVars, dvVars, pfVars, cfVars>>
\* the variables the coordinator's actions leave alone (of the API client
\* they touch the token state only)
nonCoVars == <<auth, call, cbVars, erVars, dvVars, pfVars, cfVars>>
\* the variables the validators leave alone
nonDvVars == <<clockVars, apiVars, cbVars, erVars, coVars, pfVars, cfVars>>
\* the variables the calculation cache leaves alone (it reads the clock)
nonPcVars ==
    <<apiVars, cbVars, erVars, coVars, dvVars, brVars, buVars, cfVars>>
\* the variables the bulk refresh leaves alone
\* the variables the configuration flow leaves alone
nonCfVars == <<clockVars, apiVars, cbVars, erVars, coVars, dvVars, pfVars>>
nonBrVars ==
    <<clockVars, apiVars, cbVars, erVars, coVars, dvVars, pcVars, buVars, cfVars>>

(***************************************************************************)
(* Bounds of the model.                                                    *)
(***************************************************************************)
MaxTicks == 3

(***************************************************************************)
(* Python values.                                                          *)
(***************************************************************************)
\* None, for the string-valued attributes
None == "None"
\* a key that a JSON response does not carry
Absent == "Absent"
\* None, for the datetime-valued attributes (times are >= 0)
NoTime == -1
\* bool(x) of an Optional[str]
Truthy(x) == x \notin {None, Absent, ""}

(***************************************************************************)
(* api.py: RedEnergyAPI                                                    *)
(***************************************************************************)
\* tokens.get('expires_in', 3600)
DefaultExpiresIn == 3600

\* The clock advances by half a default token lifetime at a time, so that a
\* token is seen before, exactly at and after its recorded expiry.
ApiTick == DefaultExpiresIn \div 2

\* JSON bodies the token endpoint can answer with (status 200).
\* expires_in is absent (the default applies), a number of seconds, or a value
\* timedelta(seconds=...) rejects (null, a string).
TokenBodies ==
    {b \in [access_token : {Absent, "", "at1", "at2"},
            refresh_token : {Absent, "rt1", "rt2"},
            expires_kind : {"absent", "number", "invalid"},
            expires_in : {0, ApiTick}] :
        b.expires_kind # "number" => b.expires_in = 0}

\* The body of an answer that is not a 200: never read as tokens.
NoBody ==
    [access_token |-> Absent, refresh_token |-> Absent,
     expires_kind |-> "absent", expires_in |-> 0]

\* What can happen to one HTTP exchange: a response with a status, or no
\* response within API_TIMEOUT / a transport error.
HttpOutcomes == {"200", "4xx", "timeout"}

\* The five steps of authenticate(), in the order the code issues them.
AuthOrder == <<"login", "discovery", "pkce", "authcode", "exchange">>

\* The step after `step` in authenticate().
StepAfter(step) ==
    CASE step = "login" -> "discovery"
      [] step = "discovery" -> "pkce"
      [] step = "pkce" -> "authcode"
      [] step = "authcode" -> "exchange"
      [] step = "exchange" -> "done"

\* What authenticate() does after `step`: the next step when it succeeded,
\* and out through the except clauses when it raised.
AuthNext_NoAbort(step, ok) == StepAfter(step)
AuthNext(step, ok) == IF ok THEN StepAfter(step) ELSE "done"

\* What authenticate() has returned or raised after `step`.
AuthOutcome_EarlyReturn(step, ok) ==
    IF ~ok THEN "AuthError"
    ELSE IF step \in {"authcode", "exchange"} THEN "success" ELSE "none"
AuthOutcome(step, ok) ==
    IF ~ok THEN "AuthError"
    ELSE IF step = "exchange" THEN "success" ELSE "none"

\* One step of authenticate() has been issued, and succeeded or raised.
\* (failed: the step that did not succeed, as the provider answered it.)
AuthAfter(a, step, ok) ==
    [a EXCEPT !.pc = AuthNext(step, ok),
              !.steps = Append(a.steps, step),
              !.result = AuthOutcome(step, ok),
              !.failed = IF ok THEN a.failed ELSE step]

\* No run of authenticate() yet. (stored: _exchange_code_for_tokens has
\* assigned self._access_token in this run.)
AuthIdle ==
    [pc |-> "idle", steps |-> <<>>, result |-> "none", stored |-> FALSE,
     failed |-> "none"]

\* _get_session_token: "ok" is HTTP 200 with status SUCCESS and a sessionToken.
LoginOutcomes ==
    {"ok", "http_error", "status_not_success", "missing_session_token", "timeout"}
\* _get_discovery_data, and the two endpoints read from it.
DiscoveryOutcomes == {"ok", "http_error", "missing_endpoint", "timeout"}
\* _get_authorization_code: "code" is a Location header whose query has a code.
AuthCodeOutcomes == {"code", "no_location", "error_param", "timeout"}

\* datetime.now() >= self._token_expires, behind `self._token_expires and`
Expired_Strict(expires, t) == expires # NoTime /\ t > expires
Expired(expires, t) == expires # NoTime /\ t >= expires

\* step 1 of authenticate(), entered by a caller of authenticate()
authenticate_login(o) ==
    /\ auth.pc \in {"idle", "done"}
    /\ auth' = AuthAfter(AuthIdle, "login", o = "ok")
    /\ UNCHANGED <<access_token, refresh_token, token_expires, call, clockVars, nonApiVars>>

\* async_refresh_credentials: the token state is cleared, then authenticate()
refresh_credentials_login(o) ==
    /\ auth.pc \in {"idle", "done"}
    /\ access_token' = None
    /\ refresh_token' = None
    /\ token_expires' = NoTime
    /\ auth' = AuthAfter(AuthIdle, "login", o = "ok")
    /\ UNCHANGED <<call, clockVars, nonApiVars>>

\* step 2
authenticate_discovery(o) ==
    /\ auth.pc = "discovery"
    /\ auth' = AuthAfter(auth, "discovery", o = "ok")
    /\ UNCHANGED <<access_token, refresh_token, token_expires, call, clockVars, nonApiVars>>

\* step 3: _generate_code_verifier, _generate_code_challenge (local, no I/O)
authenticate_pkce ==
    /\ auth.pc = "pkce"
    /\ auth' = AuthAfter(auth, "pkce", TRUE)
    /\ UNCHANGED <<access_token, refresh_token, token_expires, call, clockVars, nonApiVars>>

\* step 4
authenticate_authcode(o) ==
    /\ auth.pc = "authcode"
    /\ auth' = AuthAfter(auth, "authcode", o = "code")
    /\ UNCHANGED <<access_token, refresh_token, token_expires, call, clockVars, nonApiVars>>

\* The token state after a 200 answer `body` of the token endpoint has been
\* stored by _exchange_code_for_tokens, in the order of its assignments:
\* tokens['access_token'] raises KeyError before anything is assigned, and
\* timedelta(seconds=expires_in) raises TypeError after the two tokens were.
ExchangeStore(body, cur, t) ==
    IF body.access_token = Absent THEN cur
    ELSE [access_token |-> body.access_token,
          refresh_token |-> IF body.refresh_token = Absent THEN None
                            ELSE body.refresh_token,
          token_expires |->
              CASE body.expires_kind = "absent" -> t + DefaultExpiresIn
                [] body.expires_kind = "number" -> t + body.expires_in
                [] body.expires_kind = "invalid" -> cur.token_expires]

\* The same for _refresh_access_token: the refresh token is replaced only
\* when the answer carries one.
RefreshStore(body, cur, t) ==
    IF body.access_token = Absent THEN cur
    ELSE [access_token |-> body.access_token,
          refresh_token |-> IF body.refresh_token = Absent THEN cur.refresh_token
                            ELSE body.refresh_token,
          token_expires |->
              CASE body.expires_kind = "absent" -> t + DefaultExpiresIn
                [] body.expires_kind = "number" -> t + body.expires_in
                [] body.expires_kind = "invalid" -> cur.token_expires]

\* time passes: the clock moves on by `d` seconds
ClockAdvance(d) ==
    /\ ticks < MaxTicks
    /\ now' = now + d
    /\ ticks' = ticks + 1
    /\ UNCHANGED nonClockVars

\* Whether storing a 200 answer ran to its end without raising.
StoreOk(body) == body.access_token # Absent /\ body.expires_kind # "invalid"

TokenState ==
    [access_token |-> access_token, refresh_token |-> refresh_token,
     token_expires |-> token_expires]

\* step 5
authenticate_exchange(o, body) ==
    /\ auth.pc = "exchange"
    /\ LET ok == o = "200" /\ StoreOk(body)
           st == IF o = "200" THEN ExchangeStore(body, TokenState, now)
                 ELSE TokenState
       IN /\ access_token' = st.access_token
          /\ refresh_token' = st.refresh_token
          /\ token_expires' = st.token_expires
          /\ auth' = [AuthAfter(auth, "exchange", ok) EXCEPT
                         !.stored = (o = "200" /\ body.access_token # Absent)]
    /\ UNCHANGED <<call, clockVars, nonApiVars>>

(***************************************************************************)
(* The bearer-authenticated calls: get_customer_data, get_properties,      *)
(* get_usage_data. Each awaits _ensure_valid_token() and then sends its    *)
(* request with `Bearer {self._access_token}`; there is no await between   *)
(* the expiry check (or the end of the refresh) and the request.           *)
(***************************************************************************)
ApiCalls == {"get_customer_data", "get_properties", "get_usage_data"}

\* How _ensure_valid_token finds the token state `st` at time `t`, in the
\* words of its contract: no access token; a token whose recorded expiry is
\* at or before `t`, with or without a refresh token; a token not yet expired.
TokenCase(st, t) ==
    IF st.access_token \in {None, ""} THEN "no_token"
    ELSE IF st.token_expires # NoTime /\ st.token_expires <= t
         THEN IF st.refresh_token \in {None, ""} THEN "expired_no_refresh"
              ELSE "expired_with_refresh"
         ELSE "valid"

CallIdle ==
    [pc |-> "idle", kind |-> "none", requests |-> <<>>, refreshed |-> FALSE,
     result |-> "none",
     \* how the call found the token state when it began
     at_start |-> "none",
     \* the API request was sent, and the token's recorded expiry was at or
     \* before the time of sending
     sent |-> FALSE, sent_stale |-> FALSE]

\* The call `c` sends its API request now, with the token state `st`.
SendRequest(c, st, t) ==
    [c EXCEPT !.pc = "await_response",
              !.requests = Append(c.requests, c.kind),
              !.sent = TRUE,
              !.sent_stale = (st.token_expires # NoTime /\ st.token_expires <= t)]

\* The call `c` ends by raising `error`.
Raise(c, error) == [c EXCEPT !.pc = "done", !.result = error]

\* _ensure_valid_token up to its first await, for a call that begins
EnsureValidToken_NoTokenCheck(c, st, t) ==
    IF Expired(st.token_expires, t)
    THEN IF Truthy(st.refresh_token)
         THEN [c EXCEPT !.pc = "refresh_discovery",
                        !.refreshed = TRUE,
                        !.requests = Append(c.requests, "discovery")]
         ELSE Raise(c, "AuthError")
    ELSE SendRequest(c, st, t)
EnsureValidToken(c, st, t) ==
    IF ~Truthy(st.access_token) THEN Raise(c, "AuthError")
    ELSE IF Expired(st.token_expires, t)
         THEN IF Truthy(st.refresh_token)
              \* _refresh_access_token: the discovery request goes out
              THEN [c EXCEPT !.pc = "refresh_discovery",
                             !.refreshed = TRUE,
                             !.requests = Append(c.requests, "discovery")]
              ELSE Raise(c, "AuthError")
         ELSE SendRequest(c, st, t)

\* get_customer_data / get_properties / get_usage_data is called
api_call(kind) ==
    /\ call.pc \in {"idle", "done"}
    /\ call' = EnsureValidToken(
                  [CallIdle EXCEPT !.kind = kind,
                                   !.at_start = TokenCase(TokenState, now)],
                  TokenState, now)
    /\ UNCHANGED <<access_token, refresh_token, token_expires, auth, clockVars, nonApiVars>>

\* _refresh_access_token: the discovery document arrives (or does not), and
\* the token request with grant_type=refresh_token goes out
refresh_discovery_response(o) ==
    /\ call.pc = "refresh_discovery"
    /\ call' = IF o = "ok"
               THEN [call EXCEPT !.pc = "refresh_token_post",
                                 !.requests = Append(call.requests,
                                                     "token:grant_type=refresh_token")]
               ELSE Raise(call, IF o = "missing_endpoint" THEN "KeyError"
                                ELSE IF o = "timeout" THEN "TimeoutError"
                                ELSE "ClientResponseError")
    /\ UNCHANGED <<access_token, refresh_token, token_expires, auth, clockVars, nonApiVars>>

\* _refresh_access_token: the token endpoint answers; on success the token
\* state is replaced and the API request of the call goes out
refresh_token_response(o, body) ==
    /\ call.pc = "refresh_token_post"
    /\ LET st == IF o = "200" THEN RefreshStore(body, TokenState, now)
                 ELSE TokenState
       IN /\ access_token' = st.access_token
          /\ refresh_token' = st.refresh_token
          /\ token_expires' = st.token_expires
          /\ call' = CASE o = "timeout" -> Raise(call, "TimeoutError")
                       [] o = "4xx" -> Raise(call, "AuthError")
                       [] o = "200" /\ body.access_token = Absent ->
                              Raise(call, "KeyError")
                       [] o = "200" /\ body.access_token # Absent
                                    /\ body.expires_kind = "invalid" ->
                              Raise(call, "TypeError")
                       [] OTHER -> SendRequest(call, st, now)
    /\ UNCHANGED <<auth, clockVars, nonApiVars>>

\* the API answers the request of the call (raise_for_status, response.json)
api_response(o) ==
    /\ call.pc = "await_response"
    /\ call' = [call EXCEPT !.pc = "done",
                            !.result = CASE o = "200" -> "ok"
                                         [] o = "4xx" -> "ClientResponseError"
                                         [] o = "timeout" -> "TimeoutError"]
    /\ UNCHANGED <<access_token, refresh_token, token_expires, auth, clockVars, nonApiVars>>

\* RedEnergyAPI.__init__
ApiInit ==
    /\ access_token = None
    /\ refresh_token = None
    /\ token_expires = NoTime
    /\ auth = AuthIdle
    /\ call = CallIdle

ClockInit == now = 0 /\ ticks = 0


(***************************************************************************)
(* error_recovery.py: class CircuitBreaker                                 *)
(* A breaker is a record of the object's five attributes; each method is   *)
(* an operator from the object (and the time) to the object afterwards.    *)
(***************************************************************************)
\* CircuitBreaker.__init__ defaults, and what async_handle_error passes
DefaultFailureThreshold == 5
DefaultRecoveryTimeout == 300

\* record_failure() is not called on a breaker that has counted this many
MaxFailures == 7

\* CircuitBreaker.__init__
CircuitBreaker(failure_threshold, recovery_timeout) ==
    [failure_threshold |-> failure_threshold,
     recovery_timeout |-> recovery_timeout,
     failure_count |-> 0,
     last_failure_time |-> NoTime,
     state |-> "CLOSED"]

\* CircuitBreaker.record_success
record_success_KeepsCount(b) == [b EXCEPT !.state = "CLOSED"]
record_success(b) == [b EXCEPT !.failure_count = 0, !.state = "CLOSED"]

\* CircuitBreaker.record_failure, called at time t
record_failure_OffByOne(b, t) ==
    [b EXCEPT !.failure_count = b.failure_count + 1,
              !.last_failure_time = t,
              !.state = IF b.failure_count + 1 > b.failure_threshold
                        THEN "OPEN" ELSE b.state]
record_failure_OnlyFromClosed(b, t) ==
    [b EXCEPT !.failure_count = b.failure_count + 1,
              !.last_failure_time = t,
              !.state = IF b.state = "CLOSED"
                           /\ b.failure_count + 1 >= b.failure_threshold
                        THEN "OPEN" ELSE b.state]
record_failure(b, t) ==
    [b EXCEPT !.failure_count = b.failure_count + 1,
              !.last_failure_time = t,
              !.state = IF b.failure_count + 1 >= b.failure_threshold
                        THEN "OPEN" ELSE b.state]

\* CircuitBreaker.is_open, called at time t: what it returns, and the
\* object afterwards
is_open_RestartsTimeout(b, t) ==
    IF b.state = "OPEN" /\ b.last_failure_time # NoTime
    THEN IF t - b.last_failure_time > b.recovery_timeout
         THEN [ret |-> FALSE, cb |-> [b EXCEPT !.state = "HALF_OPEN"]]
         ELSE [ret |-> TRUE, cb |-> [b EXCEPT !.last_failure_time = t]]
    ELSE [ret |-> FALSE, cb |-> b]
is_open_NeverHalfOpen(b, t) ==
    [ret |-> b.state = "OPEN" /\ b.last_failure_time # NoTime, cb |-> b]
is_open(b, t) ==
    IF b.state = "OPEN" /\ b.last_failure_time # NoTime
    THEN IF t - b.last_failure_time > b.recovery_timeout
         THEN [ret |-> FALSE, cb |-> [b EXCEPT !.state = "HALF_OPEN"]]
         ELSE [ret |-> TRUE, cb |-> b]
    ELSE [ret |-> FALSE, cb |-> b]

\* The clock of the breaker's specifications moves by one second or by a
\* whole recovery timeout, so that a breaker is seen before, exactly at and
\* after the end of its recovery timeout.
BreakerTicks == {1, DefaultRecoveryTimeout}

\* The clock of the error recovery system moves by half a recovery timeout.
ErTick == DefaultRecoveryTimeout \div 2

\* The thresholds and timeouts breakers are constructed with.
FailureThresholds == {1, 2, DefaultFailureThreshold}
RecoveryTimeouts == {0, DefaultRecoveryTimeout}

CbOpNone == [name |-> "init", ret |-> FALSE, from |-> "CLOSED", consecutive |-> 0,
             reopened |-> FALSE]

\* cb.record_success()
cb_record_success ==
    /\ cb' = record_success(cb)
    /\ cb_op' = [name |-> "record_success", ret |-> FALSE, from |-> cb.state,
                 consecutive |-> 0, reopened |-> FALSE]
    /\ UNCHANGED <<clockVars, nonCbVars>>

\* cb.record_failure()
cb_record_failure ==
    /\ cb.failure_count < MaxFailures
    /\ cb' = record_failure(cb, now)
    /\ cb_op' = [name |-> "record_failure", ret |-> FALSE, from |-> cb.state,
                 consecutive |-> cb_op.consecutive + 1,
                 reopened |-> cb.state = "HALF_OPEN"]
    /\ UNCHANGED <<clockVars, nonCbVars>>

\* cb.is_open()
cb_is_open ==
    /\ cb' = is_open(cb, now).cb
    /\ cb_op' = [cb_op EXCEPT !.name = "is_open", !.ret = is_open(cb, now).ret,
                              !.from = cb.state]
    /\ UNCHANGED <<clockVars, nonCbVars>>

\* no breaker object under test
CbIdle ==
    /\ cb = CircuitBreaker(DefaultFailureThreshold, DefaultRecoveryTimeout)
    /\ cb_op = CbOpNone

CbInit ==
    /\ \E th \in FailureThresholds, rt \in RecoveryTimeouts :
           cb = CircuitBreaker(th, rt)
    /\ cb_op = CbOpNone

ApiIdle == ApiInit

(***************************************************************************)
(* error_recovery.py: class RedEnergyErrorRecoverySystem                   *)
(***************************************************************************)
\* deque(maxlen=1000)
HistoryMaxLen == 1000

\* async_handle_error is not called once this many errors were handled
MaxErrors == 7

\* nor once this many errors were handled after the history became full
MaxOverflow == 2

\* ErrorType: the values of the enumeration
ErrorTypes ==
    {"api_connection", "api_authentication", "api_rate_limit", "api_data_invalid",
     "coordinator_update", "entity_update", "config_invalid", "network_timeout",
     "unknown"}

\* RecoveryAction(strategy, action, max_attempts, delay, backoff_factor),
\* with the defaults of RecoveryAction.__init__ (delay 5, backoff_factor 2)
RecoveryAction(strategy, action, max_attempts, delay) ==
    [strategy |-> strategy, action |-> action, max_attempts |-> max_attempts,
     delay |-> delay, backoff_factor |-> 2]

\* _setup_default_recovery_actions: self._recovery_actions.get(error_type, [])
RecoveryActions(error_type) ==
    CASE error_type = "api_connection" ->
            <<RecoveryAction("retry", "_retry_api_connection", 3, 10),
              RecoveryAction("fallback", "_use_cached_data", 1, 5)>>
      [] error_type = "api_authentication" ->
            <<RecoveryAction("retry", "_refresh_authentication", 2, 5),
              RecoveryAction("notify", "_notify_authentication_failure", 1, 5)>>
      [] error_type = "api_rate_limit" ->
            <<RecoveryAction("retry", "_wait_and_retry", 3, 60)>>
      [] error_type = "coordinator_update" ->
            <<RecoveryAction("retry", "_retry_coordinator_update", 2, 5),
              RecoveryAction("fallback", "_use_last_known_state", 1, 5)>>
      [] error_type = "entity_update" ->
            <<RecoveryAction("retry", "_retry_entity_update", 2, 2),
              RecoveryAction("fallback", "_restore_entity_state", 1, 5)>>
      [] OTHER -> <<>>

\* b ** n
RECURSIVE Power(_, _)
Power(b, n) == IF n = 0 THEN 1 ELSE b * Power(b, n - 1)

\* The for loop of _attempt_recovery from position `from` on: the index of
\* the first action it does not skip, 0 when it skips them all. It skips an
\* action when error_record.recovery_attempts >= action.max_attempts.
NextRecoveryAction_OneAttemptMore(actions, from, recovery_attempts) ==
    LET open == {i \in (IF from > 1 THEN from - 1 ELSE 1)..Len(actions) :
                    ~(recovery_attempts > actions[i].max_attempts)}
    IN IF open = {} THEN 0 ELSE CHOOSE i \in open : \A j \in open : i <= j
NextRecoveryAction(actions, from, recovery_attempts) ==
    LET open == {i \in from..Len(actions) :
                    ~(recovery_attempts >= actions[i].max_attempts)}
    IN IF open = {} THEN 0 ELSE CHOOSE i \in open : \A j \in open : i <= j

\* ErrorRecord.__init__ (severity, message and context are not modelled)
ErrorRecord(error_type) ==
    [error_type |-> error_type, recovery_attempts |-> 0, resolved |-> FALSE]

\* deque.append with maxlen: the oldest record goes when the deque is full
HistoryAppend_Unbounded(h, r) == Append(h, r)
HistoryAppend(h, r) ==
    IF Len(h) >= HistoryMaxLen THEN Append(Tail(h), r) ELSE Append(h, r)

\* defaultdict(int)[k] += 1
Increment(d, k) ==
    [x \in DOMAIN d \cup {k} |->
        IF x = k THEN (IF k \in DOMAIN d THEN d[k] ELSE 0) + 1 ELSE d[x]]

\* dict[k] = v
Store(d, k, v) == [x \in DOMAIN d \cup {k} |-> IF x = k THEN v ELSE d[x]]

\* The contexts async_handle_error is called with: a dict without a
\* 'component' (or no dict at all), or one that names a component.
Contexts == {[component |-> Absent], [component |-> "api"]}

\* f"{error_type.value}_{context.get('component', 'unknown') if context else 'unknown'}"
CircuitKey(error_type, context) ==
    error_type \o "_" \o
        (IF context.component = Absent THEN "unknown" ELSE context.component)

\* "Check circuit breaker": whether the call is turned away, and the
\* breakers afterwards (is_open() may set HALF_OPEN; a key seen for the
\* first time gets CircuitBreaker(failure_threshold=5, recovery_timeout=300))
CheckCircuitBreaker_CountsGated(breakers, key, t) ==
    IF key \in DOMAIN breakers
    THEN [open |-> is_open(breakers[key], t).ret,
          breakers |-> Store(breakers, key,
              IF is_open(breakers[key], t).ret
              THEN record_failure(breakers[key], t)
              ELSE is_open(breakers[key], t).cb)]
    ELSE [open |-> FALSE,
          breakers |-> Store(breakers, key,
              CircuitBreaker(DefaultFailureThreshold, DefaultRecoveryTimeout))]
CheckCircuitBreaker(breakers, key, t) ==
    IF key \in DOMAIN breakers
    THEN [open |-> is_open(breakers[key], t).ret,
          breakers |-> Store(breakers, key, is_open(breakers[key], t).cb)]
    ELSE [open |-> FALSE,
          breakers |-> Store(breakers, key,
              CircuitBreaker(DefaultFailureThreshold, DefaultRecoveryTimeout))]

\* "Update circuit breaker"
UpdateCircuitBreaker_WholeType(breakers, key, recovery_success, t) ==
    [k \in DOMAIN breakers |->
        IF recovery_success THEN record_success(breakers[k])
        ELSE IF k = key THEN record_failure(breakers[k], t) ELSE breakers[k]]
UpdateCircuitBreaker(breakers, key, recovery_success, t) ==
    Store(breakers, key,
          IF recovery_success THEN record_success(breakers[key])
          ELSE record_failure(breakers[key], t))

\* _recovery_stats[...] += 1
UpdateStats(stats, recovery_success) ==
    IF recovery_success
    THEN [stats EXCEPT !.successful_recoveries = @ + 1]
    ELSE [stats EXCEPT !.failed_recoveries = @ + 1]

ErCallIdle ==
    [pc |-> "idle", error_type |-> "none", key |-> "none",
     record |-> 0,        \* the position of the call's ErrorRecord in the history
     action |-> 0,        \* the position of the awaited recovery action
     invoked |-> <<>>,    \* the recovery actions invoked, in order
     slept |-> 0,         \* the seconds of asyncio.sleep before them
     gated |-> FALSE,     \* turned away by the open circuit breaker
     result |-> FALSE]    \* what async_handle_error returned

\* _attempt_recovery awaits the recovery action at position i
AwaitAction(c, actions, i, recovery_attempts) ==
    [c EXCEPT !.pc = "action",
              !.action = i,
              !.invoked = Append(c.invoked, actions[i].action),
              !.slept = c.slept +
                  (IF recovery_attempts > 0
                   THEN actions[i].delay *
                        Power(actions[i].backoff_factor, recovery_attempts)
                   ELSE 0)]

\* The end of async_handle_error after _attempt_recovery returned
\* recovery_success: the breaker and the statistics are updated and the
\* record is marked resolved. (The save every 50th error goes to the host's
\* storage, which is not modelled.)
FinishHandleError_FailureOfActionsOnly(c, breakers, history, recovery_success) ==
    /\ circuit_breakers' =
           IF c.invoked = <<>> THEN breakers
           ELSE UpdateCircuitBreaker(breakers, c.key, recovery_success, now)
    /\ recovery_stats' = UpdateStats(recovery_stats, recovery_success)
    /\ error_history' =
           [history EXCEPT ![c.record].resolved = recovery_success]
    /\ er_call' = [c EXCEPT !.pc = "done", !.action = 0,
                            !.result = recovery_success]
FinishHandleError(c, breakers, history, recovery_success) ==
    /\ circuit_breakers' = UpdateCircuitBreaker(breakers, c.key, recovery_success, now)
    /\ recovery_stats' = UpdateStats(recovery_stats, recovery_success)
    /\ error_history' =
           [history EXCEPT ![c.record].resolved = recovery_success]
    /\ er_call' = [c EXCEPT !.pc = "done", !.action = 0,
                            !.result = recovery_success]

\* async_handle_error(error, error_type, context) up to its first await
handle_error(error_type, context) ==
    /\ error_type = raised_type
    /\ er_call.pc \in {"idle", "done"}
    /\ LET history == HistoryAppend(error_history, ErrorRecord(error_type))
           key == CircuitKey(error_type, context)
           checked == CheckCircuitBreaker(circuit_breakers, key, now)
           actions == RecoveryActions(error_type)
           first == NextRecoveryAction(actions, 1, 0)
           c == [ErCallIdle EXCEPT !.error_type = error_type, !.key = key,
                                   !.record = Len(history)]
       IN /\ error_counts' = Increment(error_counts, error_type)
          /\ IF checked.open
             THEN \* the circuit breaker is open: skipping recovery
                  /\ error_history' = history
                  /\ circuit_breakers' = checked.breakers
                  /\ er_call' = [c EXCEPT !.pc = "done", !.gated = TRUE]
                  /\ UNCHANGED recovery_stats
             ELSE IF first = 0
                  THEN \* no recovery action: _attempt_recovery returns False
                       FinishHandleError(c, checked.breakers, history, FALSE)
                  ELSE /\ error_history' = history
                       /\ circuit_breakers' = checked.breakers
                       /\ er_call' = AwaitAction(c, actions, first, 0)
                       /\ UNCHANGED recovery_stats
    /\ UNCHANGED <<raised_type, clockVars, nonErVars>>

\* What an awaited recovery action can do: return True, return False, raise.
ActionOutcomes == {"True", "False", "raises"}

\* the awaited recovery action returns or raises; _attempt_recovery goes on
\* to the next action it does not skip, or returns
recovery_action_done(outcome) ==
    /\ er_call.pc = "action"
    /\ LET actions == RecoveryActions(er_call.error_type)
           attempts == error_history[er_call.record].recovery_attempts + 1
           history == [error_history EXCEPT
                          ![er_call.record].recovery_attempts = attempts]
           next == NextRecoveryAction(actions, er_call.action + 1, attempts)
       IN IF outcome = "True"
          THEN FinishHandleError(er_call, circuit_breakers, history, TRUE)
          ELSE IF next = 0
               THEN FinishHandleError(er_call, circuit_breakers, history, FALSE)
               ELSE /\ error_history' = history
                    /\ er_call' = AwaitAction(er_call, actions, next, attempts)
                    /\ UNCHANGED <<circuit_breakers, recovery_stats>>
    /\ UNCHANGED <<error_counts, raised_type, clockVars, nonErVars>>

\* RedEnergyErrorRecoverySystem.__init__
ErInit ==
    /\ error_history = <<>>
    /\ error_counts = <<>>
    /\ recovery_stats = [successful_recoveries |-> 0, failed_recoveries |-> 0]
    /\ circuit_breakers = <<>>
    /\ er_call = ErCallIdle

\* The error types the host reports, one per behaviour: one for each shape
\* of recovery policy (two actions with 3 and 1 attempts, two with 2 and 1,
\* one action, none).
ErrorTypesRaised ==
    {"api_connection", "api_authentication", "api_rate_limit",
     "api_data_invalid", "network_timeout", "unknown"}

ErIdle == ErInit /\ raised_type = "none"

\* sum(d.values())
RECURSIVE SumValues(_, _)
SumValues(d, keys) ==
    IF keys = {} THEN 0
    ELSE LET k == CHOOSE k \in keys : TRUE
         IN d[k] + SumValues(d, keys \ {k})

\* How many errors async_handle_error has handled.
ErrorsHandled == SumValues(error_counts, DOMAIN error_counts)

\* get_error_statistics(): the counts it reports of the history
get_error_statistics(history) ==
    [total_errors |-> Len(history),
     resolved_errors |->
         Cardinality({i \in 1..Len(history) : history[i].resolved}),
     unresolved_errors |->
         Cardinality({i \in 1..Len(history) : ~history[i].resolved})]

\* The system after a long run of HistoryMaxLen - 1 rate-limit errors at
\* time 0: _wait_and_retry failed for the first and succeeded for every
\* later one. The history is one record short of full.
ErLongRun ==
    LET key == CircuitKey("api_rate_limit", [component |-> Absent])
        n == HistoryMaxLen - 1
        tried == [ErrorRecord("api_rate_limit") EXCEPT !.recovery_attempts = 1]
    IN /\ error_history =
              [i \in 1..n |-> [tried EXCEPT !.resolved = (i > 1)]]
       /\ error_counts = [t \in {"api_rate_limit"} |-> n]
       /\ recovery_stats =
              [successful_recoveries |-> n - 1, failed_recoveries |-> 1]
       /\ circuit_breakers =
              [k \in {key} |->
                  record_success(
                      record_failure(
                          CircuitBreaker(DefaultFailureThreshold,
                                         DefaultRecoveryTimeout), 0))]
       /\ er_call = [ErCallIdle EXCEPT !.pc = "done",
                                       !.error_type = "api_rate_limit",
                                       !.key = key, !.record = n,
                                       !.invoked = <<"_wait_and_retry">>,
                                       !.result = TRUE]
       /\ raised_type = "api_rate_limit"

(***************************************************************************)
(* coordinator.py: class RedEnergyDataCoordinator                          *)
(* A run of _async_update_data (a poll cycle) is split at its awaits: the  *)
(* code between two awaits runs without interruption. The published       *)
(* snapshot is self.data, which the inherited                              *)
(* DataUpdateCoordinator.async_refresh assigns as                          *)
(* `self.data = await self._async_update_data()`: the value returned       *)
(* replaces it, UpdateFailed leaves it alone.                              *)
(***************************************************************************)
\* no more than this many runs of _async_update_data begin
MaxCycles == 2

\* the slots for runs of _async_update_data in flight at the same time
CycleSlots == {1, 2}

\* The accounts (property ids) and service types of the model's provider.
Accounts == {"p1", "p2"}
ServiceTypes == {"electricity", "gas"}

\* One service of a validated property (validate_single_property)
Service(type, consumer_number, active) ==
    [type |-> type, consumer_number |-> consumer_number, active |-> active]

\* The property lists validate_properties_data returns (never empty): one
\* property with two services; two properties, one of which has a service
\* that is switched off and one without a consumer number.
PropertyLists ==
    {<<[id |-> "p1",
        services |-> <<Service("electricity", "c1", TRUE),
                       Service("gas", "c2", TRUE)>>]>>,
     <<[id |-> "p1",
        services |-> <<Service("electricity", "c1", TRUE)>>],
       [id |-> "p2",
        services |-> <<Service("gas", "c3", FALSE),
                       Service("electricity", "", TRUE),
                       Service("electricity", "c4", TRUE)>>]>>}

\* What validate_usage_data returns: the daily entries and the totals.
ValidatedUsage(entries, total) ==
    [usage_data |-> entries, total_usage |-> total, total_cost |-> total]

\* The provider's usage of a service over the last 30 days, validated: a
\* day's entry for an electricity service, an empty list for a gas service.
ProviderUsage(service) ==
    IF service.type = "gas" THEN ValidatedUsage(<<>>, 0)
    ELSE ValidatedUsage(<<[usage |-> 5]>>, 5)

\* What can happen to one bearer-authenticated request of a cycle and the
\* validation of its payload:
\*   "ok"         a payload that validates
\*   "invalid"    the validator raises DataValidationError
\*   "4xx"        raise_for_status raises aiohttp.ClientResponseError
\*   "timeout"    async_timeout raises asyncio.TimeoutError
\*   "AuthError"  _ensure_valid_token raises RedEnergyAuthError
BaseOutcomes == {"ok", "invalid", "4xx"}
UsageOutcomes == BaseOutcomes \cup {"timeout", "AuthError"}

\* The exception a failed request or validation raises.
ExceptionOf(o) ==
    CASE o = "invalid" -> "DataValidationError"
      [] o = "4xx" -> "ClientResponseError"
      [] o = "timeout" -> "TimeoutError"
      [] o = "AuthError" -> "RedEnergyAuthError"

\* except (RedEnergyAPIError, DataValidationError) around one service's
\* fetch: RedEnergyAuthError is a RedEnergyAPIError.
CaughtPerService(exception) ==
    exception \in {"RedEnergyAPIError", "RedEnergyAuthError", "DataValidationError"}

\* self.data before the first successful refresh (None)
NoSnapshot ==
    [present |-> FALSE, customer |-> None, properties |-> <<>>,
     usage_data |-> <<>>, last_update |-> 0]

CycleIdle ==
    [pc |-> "idle",
     seq |-> 0,            \* the number of the run (its timestamps)
     cached |-> FALSE,     \* customer and properties were cached when it began
     props |-> <<>>,       \* the list the for loop iterates
     pos |-> <<0, 0>>,     \* the property and service being fetched
     usage_data |-> <<>>,  \* the local usage_data
     requests |-> <<>>,    \* the requests issued, in order
     skipped |-> FALSE,    \* an exception was caught per service
     result |-> "none",    \* "ok" or "UpdateFailed"
     cause |-> "none"]     \* the exception UpdateFailed was raised from

\* The service (i, j) of the list passes the filters of the for loops.
Fetchable(props, i, j, selected, svcs) ==
    /\ props[i].id \in selected
    /\ Truthy(props[i].services[j].consumer_number)
    /\ props[i].services[j].type \in svcs
    /\ props[i].services[j].active

\* (i, j) comes before (k, l) in the order of the for loops
Before(a, b) == a[1] < b[1] \/ (a[1] = b[1] /\ a[2] < b[2])

\* The for loops from the position after `pos` on: the next service that is
\* fetched, <<0, 0>> when the loops run to their end. The property of `pos`
\* passed `property_id not in self.selected_accounts` when its loop body
\* began; the test is not made again for its later services.
NextFetch(props, pos, selected, svcs) ==
    LET all == UNION {{<<i, j>> : j \in 1..Len(props[i].services)} :
                         i \in 1..Len(props)}
        later == {p \in all :
                     /\ Before(pos, p)
                     /\ Fetchable(props, p[1], p[2],
                                  IF p[1] = pos[1]
                                  THEN selected \cup {props[p[1]].id}
                                  ELSE selected,
                                  svcs)}
    IN IF later = {} THEN <<0, 0>>
       ELSE CHOOSE p \in later : \A q \in later : p = q \/ Before(p, q)

\* property_usage[service_type] = {...} and, at the end of the property,
\* usage_data[property_id] = {"property": ..., "services": property_usage}:
\* a property is in usage_data when one of its services was stored.
StoreUsage(usage_data, property, service, validated, seq) ==
    LET old == IF property.id \in DOMAIN usage_data
               THEN usage_data[property.id].services ELSE <<>>
    IN Store(usage_data, property.id,
             [property |-> property,
              services |-> Store(old, service.type,
                  [consumer_number |-> service.consumer_number,
                   usage_data |-> validated,
                   last_updated |-> seq])])

\* The dictionary _async_update_data returns.
Snapshot(customer, props, usage_data, seq) ==
    [present |-> TRUE, customer |-> customer, properties |-> props,
     usage_data |-> usage_data, last_update |-> seq]

\* The token endpoint's answer to a good authentication.
GoodBody ==
    [access_token |-> "at1", refresh_token |-> "rt1",
     expires_kind |-> "absent", expires_in |-> 0]

\* The coordinator's attributes a run of _async_update_data reads, as they
\* are at one point of the run.
Env ==
    [customer_data |-> customer_data, properties |-> properties,
     selected_accounts |-> selected_accounts, services |-> services]

\* The run `c` has ended: its local variables are gone.
Ended(c) ==
    [c EXCEPT !.pc = "done", !.props = <<>>, !.pos = <<0, 0>>,
              !.usage_data = <<>>]

\* The run `c` ends by raising UpdateFailed from `exception`: the three
\* except clauses of _async_update_data. self.data is not assigned.
CycleFail_ClearsData(k, c, exception) ==
    /\ cycles' = [cycles EXCEPT ![k] =
           [Ended(c) EXCEPT !.result = "UpdateFailed", !.cause = exception]]
    /\ data' = NoSnapshot
CycleFail(k, c, exception) ==
    /\ cycles' = [cycles EXCEPT ![k] =
           [Ended(c) EXCEPT !.result = "UpdateFailed", !.cause = exception]]
    /\ UNCHANGED data

\* The for loops of the run `c` have come to their end: it raises
\* UpdateFailed when usage_data is empty and returns the new snapshot when
\* not, which async_refresh assigns to self.data.
CycleFinish_UpdateInPlace(k, c, env) ==
    IF c.usage_data = <<>>
    THEN CycleFail(k, c, "UpdateFailed")
    ELSE /\ cycles' = [cycles EXCEPT ![k] =
                [Ended(c) EXCEPT !.result = "ok"]]
         /\ data' = Snapshot(env.customer_data, env.properties,
                [x \in DOMAIN data.usage_data \cup DOMAIN c.usage_data |->
                    IF x \in DOMAIN c.usage_data THEN c.usage_data[x]
                    ELSE data.usage_data[x]],
                c.seq)
CycleFinish(k, c, env) ==
    IF c.usage_data = <<>>
    THEN CycleFail(k, c, "UpdateFailed")
    ELSE /\ cycles' = [cycles EXCEPT ![k] =
                [Ended(c) EXCEPT !.result = "ok"]]
         /\ data' = Snapshot(env.customer_data, env.properties, c.usage_data, c.seq)

\* The for loops of the run `c` go on after position `pos`, up to the next
\* await (the request for the next service's usage) or to their end.
UsageLoop(k, c, pos, env) ==
    LET next == NextFetch(c.props, pos, env.selected_accounts, env.services)
    IN IF next = <<0, 0>>
       THEN CycleFinish(k, c, env)
       ELSE /\ cycles' = [cycles EXCEPT ![k] =
                   [c EXCEPT !.pc = "usage", !.pos = next,
                             !.requests = Append(c.requests,
                                 c.props[next[1]].services[next[2]].consumer_number)]]
            /\ UNCHANGED data

\* "Get customer and property data if not cached", for the run `c`, with
\* the caches as they are at that point
BaseData_AlwaysFetch(k, c, env) ==
    /\ cycles' = [cycles EXCEPT ![k] =
           [c EXCEPT !.pc = "customer",
                     !.requests = Append(c.requests, "customer")]]
    /\ UNCHANGED data
BaseData(k, c, env) ==
    IF env.customer_data = None
    THEN /\ cycles' = [cycles EXCEPT ![k] =
                [c EXCEPT !.pc = "customer",
                          !.requests = Append(c.requests, "customer")]]
         /\ UNCHANGED data
    ELSE UsageLoop(k, [c EXCEPT !.props = env.properties], <<0, 0>>, env)

\* the lowest slot without a run in flight
FreeSlots == {k \in CycleSlots : cycles[k].pc \in {"idle", "done"}}
FreeSlot == CHOOSE k \in FreeSlots : \A j \in FreeSlots : k <= j

\* async_refresh() is invoked: a run of _async_update_data begins,
\* with the token and the caches as they are at that point. Nothing in
\* coordinator.py holds a run back while another is in flight.
BeginCycle(token, env) ==
    /\ cycle_seq < MaxCycles
    /\ FreeSlots # {}
    /\ cycle_seq' = cycle_seq + 1
    /\ LET c == [CycleIdle EXCEPT !.seq = cycle_seq + 1,
                                  !.cached = (env.customer_data # None
                                              /\ env.properties # <<>>)]
       IN IF ~Truthy(token)
          THEN /\ cycles' = [cycles EXCEPT ![FreeSlot] =
                      [c EXCEPT !.pc = "authenticate",
                                !.requests = <<"authenticate">>]]
               /\ UNCHANGED data
          ELSE BaseData(FreeSlot, c, env)

\* the update interval has passed, or the refresh_data service was called
async_refresh ==
    /\ BeginCycle(access_token, Env)
    /\ UNCHANGED <<selected_accounts, services, customer_data, properties,
                   rotation, read>>
    /\ UNCHANGED <<access_token, refresh_token, token_expires, clockVars, nonCoVars>>

\* async_update_account_selection(selected_accounts, services)
update_account_selection(sel, svcs) ==
    /\ selected_accounts' = sel
    /\ services' = svcs
    /\ BeginCycle(access_token,
                  [Env EXCEPT !.selected_accounts = sel, !.services = svcs])
    /\ UNCHANGED <<customer_data, properties, rotation, read>>
    /\ UNCHANGED <<access_token, refresh_token, token_expires, clockVars, nonCoVars>>

\* self.api.authenticate(...) of the run in slot k returns or raises
cycle_authenticated(k, o) ==
    /\ cycles[k].pc = "authenticate"
    /\ LET st == IF o = "ok" THEN ExchangeStore(GoodBody, TokenState, now)
                 ELSE TokenState
       IN /\ access_token' = st.access_token
          /\ refresh_token' = st.refresh_token
          /\ token_expires' = st.token_expires
    /\ IF o = "ok"
       THEN BaseData(k, cycles[k], Env)
       ELSE CycleFail(k, cycles[k], "RedEnergyAuthError")
    /\ UNCHANGED <<selected_accounts, services, customer_data, properties,
                   cycle_seq, rotation, read>>
    /\ UNCHANGED <<clockVars, nonCoVars>>

\* get_customer_data() of the run in slot k returns or raises, and
\* validate_customer_data returns or raises
cycle_customer(k, o) ==
    /\ cycles[k].pc = "customer"
    /\ IF o = "ok"
       THEN /\ customer_data' = "customer"
            /\ cycles' = [cycles EXCEPT ![k].pc = "properties",
                              ![k].requests = Append(@, "properties")]
            /\ UNCHANGED data
       ELSE /\ CycleFail(k, cycles[k], ExceptionOf(o))
            /\ UNCHANGED customer_data
    /\ UNCHANGED <<selected_accounts, services, properties, cycle_seq, rotation, read>>
    /\ UNCHANGED <<access_token, refresh_token, token_expires, clockVars, nonCoVars>>

\* get_properties() of the run in slot k returns or raises, and
\* validate_properties_data returns or raises
cycle_properties(k, o, list) ==
    /\ cycles[k].pc = "properties"
    /\ IF o = "ok"
       THEN /\ properties' = list
            /\ UsageLoop(k, [cycles[k] EXCEPT !.props = list], <<0, 0>>,
                         [Env EXCEPT !.properties = list])
       ELSE /\ CycleFail(k, cycles[k], ExceptionOf(o))
            /\ UNCHANGED properties
    /\ UNCHANGED <<selected_accounts, services, customer_data, cycle_seq, rotation, read>>
    /\ UNCHANGED <<access_token, refresh_token, token_expires, clockVars, nonCoVars>>

\* get_usage_data() for the service at the run's position returns or
\* raises, and validate_usage_data returns or raises
cycle_usage(k, o) ==
    /\ cycles[k].pc = "usage"
    /\ LET c == cycles[k]
           property == c.props[c.pos[1]]
           service == property.services[c.pos[2]]
           validated == ProviderUsage(service)
       IN IF o = "ok"
          THEN UsageLoop(k, [c EXCEPT !.usage_data =
                                 StoreUsage(c.usage_data, property, service,
                                            validated, c.seq)],
                         c.pos, Env)
          ELSE IF CaughtPerService(ExceptionOf(o))
               THEN \* "Don't fail the entire update for one service error"
                    UsageLoop(k, [c EXCEPT !.skipped = TRUE],
                              c.pos, Env)
               ELSE CycleFail(k, c, ExceptionOf(o))
    /\ UNCHANGED <<selected_accounts, services, customer_data, properties,
                   cycle_seq, rotation, read>>
    /\ UNCHANGED <<access_token, refresh_token, token_expires, clockVars, nonCoVars>>

\* No async_refresh_credentials call yet. (authenticated: authenticate()
\* returned True; seq: the run of _async_update_data the last call that
\* authenticated began, after it cleared the caches; credentials:
\* self.username, self.password and self.client_id are those the coordinator
\* was constructed with, or those given to the last call.)
RotationIdle ==
    [pc |-> "idle", authenticated |-> FALSE, result |-> "none", seq |-> 0,
     credentials |-> "initial"]

\* async_refresh_credentials(username, password, client_id) up to its first
\* await: the credentials are replaced, the token state is cleared, and
\* self.api.authenticate(...) is awaited
refresh_credentials_begin ==
    /\ rotation.pc \in {"idle", "done"}
    /\ rotation' = [RotationIdle EXCEPT !.pc = "authenticate",
                                        !.seq = rotation.seq,
                                        !.credentials = "given"]
    /\ access_token' = None
    /\ refresh_token' = None
    /\ token_expires' = NoTime
    /\ UNCHANGED <<selected_accounts, services, customer_data, properties, data,
                   cycles, cycle_seq, read>>
    /\ UNCHANGED <<clockVars, nonCoVars>>

\* authenticate() of async_refresh_credentials returns True, or raises and
\* `except Exception` returns False. After True the caches are cleared and
\* async_refresh() is awaited.
refresh_credentials_authenticated_KeepCaches(o) ==
    /\ rotation.pc = "authenticate"
    /\ LET st == IF o = "ok" THEN ExchangeStore(GoodBody, TokenState, now)
                 ELSE TokenState
       IN /\ access_token' = st.access_token
          /\ refresh_token' = st.refresh_token
          /\ token_expires' = st.token_expires
          /\ IF o = "ok"
             THEN /\ UNCHANGED <<customer_data, properties>>
                  /\ BeginCycle(st.access_token, Env)
                  /\ rotation' = [rotation EXCEPT !.pc = "refresh",
                                                  !.authenticated = TRUE,
                                                  !.seq = cycle_seq + 1]
             ELSE /\ rotation' = [rotation EXCEPT !.pc = "done",
                                                  !.result = "False"]
                  /\ UNCHANGED <<customer_data, properties, data, cycles, cycle_seq>>
    /\ UNCHANGED <<selected_accounts, services, read>>
    /\ UNCHANGED <<clockVars, nonCoVars>>
refresh_credentials_authenticated_ClearOnFailure(o) ==
    /\ rotation.pc = "authenticate"
    /\ LET st == IF o = "ok" THEN ExchangeStore(GoodBody, TokenState, now)
                 ELSE TokenState
       IN /\ access_token' = st.access_token
          /\ refresh_token' = st.refresh_token
          /\ token_expires' = st.token_expires
          /\ customer_data' = None
          /\ properties' = <<>>
          /\ IF o = "ok"
             THEN /\ BeginCycle(st.access_token,
                         [Env EXCEPT !.customer_data = None, !.properties = <<>>])
                  /\ rotation' = [rotation EXCEPT !.pc = "refresh",
                                                  !.authenticated = TRUE,
                                                  !.seq = cycle_seq + 1]
             ELSE /\ rotation' = [rotation EXCEPT !.pc = "done",
                                                  !.result = "False"]
                  /\ UNCHANGED <<data, cycles, cycle_seq>>
    /\ UNCHANGED <<selected_accounts, services, read>>
    /\ UNCHANGED <<clockVars, nonCoVars>>
refresh_credentials_authenticated(o) ==
    /\ rotation.pc = "authenticate"
    /\ LET st == IF o = "ok" THEN ExchangeStore(GoodBody, TokenState, now)
                 ELSE TokenState
       IN /\ access_token' = st.access_token
          /\ refresh_token' = st.refresh_token
          /\ token_expires' = st.token_expires
          /\ IF o = "ok"
             THEN /\ customer_data' = None
                  /\ properties' = <<>>
                  /\ BeginCycle(st.access_token,
                         [Env EXCEPT !.customer_data = None, !.properties = <<>>])
                  /\ rotation' = [rotation EXCEPT !.pc = "refresh",
                                                  !.authenticated = TRUE,
                                                  !.seq = cycle_seq + 1]
             ELSE /\ rotation' = [rotation EXCEPT !.pc = "done",
                                                  !.result = "False"]
                  /\ UNCHANGED <<customer_data, properties, data, cycles, cycle_seq>>
    /\ UNCHANGED <<selected_accounts, services, read>>
    /\ UNCHANGED <<clockVars, nonCoVars>>

\* the run async_refresh_credentials awaits has ended (async_refresh does
\* not raise): `return success`
refresh_credentials_return ==
    /\ rotation.pc = "refresh"
    /\ \A k \in CycleSlots :
           cycles[k].seq = rotation.seq => cycles[k].pc = "done"
    /\ rotation' = [rotation EXCEPT !.pc = "done", !.result = "True"]
    /\ UNCHANGED <<selected_accounts, services, customer_data, properties, data,
                   cycles, cycle_seq, read>>
    /\ UNCHANGED <<access_token, refresh_token, token_expires, clockVars, nonCoVars>>

(***************************************************************************)
(* The accessors: pure lookups in self.data. Each is an operator from the  *)
(* snapshot and the arguments to what the call raises ("none" when it      *)
(* returns) and what it returns (<<>> for None, <<v>> for the value v).    *)
(***************************************************************************)
Returns(v) == [raised |-> "none", ret |-> <<v>>]
ReturnsNone == [raised |-> "none", ret |-> <<>>]
Raises(exception) == [raised |-> exception, ret |-> <<>>]

\* dict.get(k): None when the key is not there
Get(d, k) == IF k \in DOMAIN d THEN Returns(d[k]) ELSE ReturnsNone

\* list[-1]
ListLast(l) == IF l = <<>> THEN Raises("IndexError") ELSE Returns(l[Len(l)])

\* get_property_data(property_id)
get_property_data(d, property_id) ==
    IF ~d.present THEN ReturnsNone ELSE Get(d.usage_data, property_id)

\* get_service_usage(property_id, service_type)
get_service_usage(d, property_id, service_type) ==
    LET property_data == get_property_data(d, property_id)
    IN IF property_data.ret = <<>> THEN ReturnsNone
       ELSE Get(property_data.ret[1].services, service_type)

\* get_latest_usage(property_id, service_type)
get_latest_usage_NoEmptyCheck(d, property_id, service_type) ==
    LET service_data == get_service_usage(d, property_id, service_type)
    IN IF service_data.ret = <<>> THEN ReturnsNone
       ELSE LET usage_data == service_data.ret[1].usage_data.usage_data
                last == ListLast(usage_data)
            IN IF last.raised # "none" THEN last
               ELSE Returns(last.ret[1].usage)
get_latest_usage(d, property_id, service_type) ==
    LET service_data == get_service_usage(d, property_id, service_type)
    IN IF service_data.ret = <<>> THEN ReturnsNone
       ELSE LET usage_data == service_data.ret[1].usage_data.usage_data
            IN IF usage_data = <<>> THEN ReturnsNone
               ELSE Returns(ListLast(usage_data).ret[1].usage)

\* get_total_cost(property_id, service_type)
get_total_cost(d, property_id, service_type) ==
    LET service_data == get_service_usage(d, property_id, service_type)
    IN IF service_data.ret = <<>> THEN ReturnsNone
       ELSE Returns(service_data.ret[1].usage_data.total_cost)

\* get_total_usage(property_id, service_type)
get_total_usage(d, property_id, service_type) ==
    LET service_data == get_service_usage(d, property_id, service_type)
    IN IF service_data.ret = <<>> THEN ReturnsNone
       ELSE Returns(service_data.ret[1].usage_data.total_usage)

Accessors ==
    {"get_property_data", "get_service_usage", "get_latest_usage",
     "get_total_cost", "get_total_usage"}

\* The call of the accessor `name` on the snapshot d.
Accessor(name, d, property_id, service_type) ==
    CASE name = "get_property_data" -> get_property_data(d, property_id)
      [] name = "get_service_usage" -> get_service_usage(d, property_id, service_type)
      [] name = "get_latest_usage" -> get_latest_usage(d, property_id, service_type)
      [] name = "get_total_cost" -> get_total_cost(d, property_id, service_type)
      [] name = "get_total_usage" -> get_total_usage(d, property_id, service_type)

\* a consumer calls an accessor: nothing of the coordinator is assigned
accessor(name, property_id, service_type) ==
    /\ read' = [name |-> name, property_id |-> property_id,
                service_type |-> service_type,
                raised |-> Accessor(name, data, property_id, service_type).raised,
                ret |-> Accessor(name, data, property_id, service_type).ret]
    /\ UNCHANGED <<selected_accounts, services, customer_data, properties, data,
                   cycles, cycle_seq, rotation>>
    /\ UNCHANGED <<access_token, refresh_token, token_expires, clockVars, nonCoVars>>

\* The selections of accounts and services a coordinator is configured with.
Selections ==
    {[accounts |-> {"p1"}, services |-> {"electricity", "gas"}],
     [accounts |-> {"p1", "p2"}, services |-> {"electricity"}]}

\* No accessor called yet.
ReadNone ==
    [name |-> "none", property_id |-> "none", service_type |-> "none",
     raised |-> "none", ret |-> <<>>]

\* RedEnergyDataCoordinator.__init__, with the configuration entry's
\* selection
CoInit ==
    /\ \E s \in Selections :
           selected_accounts = s.accounts /\ services = s.services
    /\ customer_data = None
    /\ properties = <<>>
    /\ data = NoSnapshot
    /\ cycles = [k \in CycleSlots |-> CycleIdle]
    /\ cycle_seq = 0
    /\ rotation = RotationIdle
    /\ read = ReadNone

\* a coordinator that is not used
CoIdle ==
    /\ selected_accounts = {}
    /\ services = {}
    /\ customer_data = None
    /\ properties = <<>>
    /\ data = NoSnapshot
    /\ cycles = [k \in CycleSlots |-> CycleIdle]
    /\ cycle_seq = 0
    /\ rotation = RotationIdle
    /\ read = ReadNone

(***************************************************************************)
(* data_validation.py: the validators, pure functions of the provider's    *)
(* payload. A payload is a JSON value: what is not a list (a dictionary)   *)
(* where a list is expected, or not a dictionary where one is expected,    *)
(* is told apart by islist / isdict. Amounts (kWh, dollars) are integers   *)
(* in units of 0.0001; a date is the number of its day, ordered as the     *)
(* ISO date strings are.                                                   *)
(***************************************************************************)
\* the longest properties list, consumers list, usage list and halfHours
\* list the provider answers with
MaxProperties == 2
MaxConsumers == 2
MaxEntries == 2
MaxIntervals == 1

\* the lists over S with at most n elements
ListsUpTo(S, n) == UNION {[1..m -> S] : m \in 0..n}

\* a JSON payload that was received, and none
Payload(islist, items) == [received |-> TRUE, islist |-> islist, items |-> items]
NoPayload == [received |-> FALSE, islist |-> FALSE, items |-> <<>>]

\* One element of a property's "consumers": a dictionary, or something else.
Consumer(utility, consumerNumber, status) ==
    [isdict |-> TRUE, utility |-> utility, consumerNumber |-> consumerNumber,
     status |-> status]
NoConsumer ==
    [isdict |-> FALSE, utility |-> Absent, consumerNumber |-> Absent,
     status |-> Absent]

\* The consumers of the model's provider: an electricity consumer, a gas
\* consumer without consumerNumber, and an element that is no dictionary.
RawConsumers ==
    {Consumer("E", "c1", "ON"), Consumer("G", Absent, "ON"), NoConsumer}

\* One element of the properties payload.
RawProperty(propertyPhysicalNumber, consumers) ==
    [isdict |-> TRUE, propertyPhysicalNumber |-> propertyPhysicalNumber,
     consumers |-> consumers]
NoProperty ==
    [isdict |-> FALSE, propertyPhysicalNumber |-> Absent, consumers |-> <<>>]

RawProperties ==
    {NoProperty, RawProperty(Absent, <<>>)}
    \cup {RawProperty("p1", consumers) :
             consumers \in ListsUpTo(RawConsumers, MaxConsumers)}

\* The answers to get_properties: a dictionary, or a list of elements.
PropertiesPayloads ==
    {Payload(FALSE, <<>>)}
    \cup {Payload(TRUE, items) : items \in ListsUpTo(RawProperties, MaxProperties)}

\* The services.append({...}) of validate_single_property: the consumer
\* mapped to the service format ('E' = electricity, 'G' = gas, the utility
\* in lower case otherwise; a missing consumerNumber becomes "").
ServiceOf(consumer) ==
    Service(IF consumer.utility = "E" THEN "electricity"
            ELSE IF consumer.utility = "G" THEN "gas"
            ELSE IF consumer.utility = Absent THEN "" ELSE consumer.utility,
            IF consumer.consumerNumber = Absent THEN ""
            ELSE consumer.consumerNumber,
            consumer.status = "ON")

\* validate_single_property(data): consumer.get(...) on an element that is
\* no dictionary raises AttributeError.
validate_single_property(d) ==
    IF ~d.isdict THEN Raises("DataValidationError")
    ELSE IF ~Truthy(d.propertyPhysicalNumber) THEN Raises("DataValidationError")
    ELSE IF \E j \in 1..Len(d.consumers) : ~d.consumers[j].isdict
         THEN Raises("AttributeError")
    ELSE Returns([id |-> d.propertyPhysicalNumber,
                  services |-> [j \in 1..Len(d.consumers) |->
                                    ServiceOf(d.consumers[j])]])

\* validate_properties_data(data): the for loop skips the elements that
\* raise DataValidationError; any other exception leaves the function.
validate_properties_data(d) ==
    IF ~d.islist THEN Raises("DataValidationError")
    ELSE IF d.items = <<>> THEN Raises("DataValidationError")
    ELSE LET results == [i \in 1..Len(d.items) |->
                             validate_single_property(d.items[i])]
             uncaught == {i \in 1..Len(d.items) :
                             results[i].raised \notin {"none", "DataValidationError"}}
             kept == SelectSeq(results, LAMBDA r : r.raised = "none")
             validated_properties == [i \in 1..Len(kept) |-> kept[i].ret[1]]
         IN IF uncaught # {}
            THEN Raises(results[CHOOSE i \in uncaught :
                                    \A j \in uncaught : i <= j].raised)
            ELSE IF validated_properties = <<>>
            THEN Raises("DataValidationError")
            ELSE Returns(validated_properties)

\* One half-hour interval of a day's usage.
Interval(consumptionKwh, consumptionDollarIncGst) ==
    [consumptionKwh |-> consumptionKwh,
     consumptionDollarIncGst |-> consumptionDollarIncGst,
     numeric |-> TRUE]

\* An interval without a reading, "consumptionKwh": null: float(None)
\* raises TypeError.
NullInterval ==
    [consumptionKwh |-> 0, consumptionDollarIncGst |-> 0, numeric |-> FALSE]

\* The intervals of the model's provider: 1.2504 kWh for $0.0742, a
\* correction of -0.5 kWh and -$0.0742, and one without a reading.
RawIntervals == {Interval(12504, 742), Interval(-5000, -742), NullInterval}

\* no "usageDate" key, or an empty one
NoDate == 0
Days == {1, 2}

\* One element of the usage payload: a day.
UsageEntry(usageDate, halfHours) ==
    [isdict |-> TRUE, usageDate |-> usageDate, halfHours |-> halfHours]
NoEntry == [isdict |-> FALSE, usageDate |-> NoDate, halfHours |-> <<>>]

RawEntries ==
    {NoEntry}
    \cup {UsageEntry(usageDate, halfHours) :
             usageDate \in Days \cup {NoDate},
             halfHours \in ListsUpTo(RawIntervals, MaxIntervals)}

\* The answers to get_usage_data: a dictionary, or a list of days.
UsagePayloads ==
    {Payload(FALSE, <<>>)}
    \cup {Payload(TRUE, items) : items \in ListsUpTo(RawEntries, MaxEntries)}

\* sum(...) of a list of numbers
RECURSIVE Sum(_)
Sum(l) == IF l = <<>> THEN 0 ELSE l[1] + Sum(Tail(l))

\* round(x, ndigits) of an amount in units of 0.0001: the nearest multiple
\* of 10^-ndigits, the even one of two that are equally near.
Round(x, ndigits) ==
    LET step == IF ndigits = 3 THEN 10 ELSE 100
        q == x \div step
        r == x % step
    IN IF 2 * r < step THEN q * step
       ELSE IF 2 * r > step THEN (q + 1) * step
       ELSE IF q % 2 = 0 THEN q * step ELSE (q + 1) * step

\* The daily entry validate_usage_data appends for one day of the payload.
DailyEntry(entry) ==
    LET daily_usage == Sum([i \in 1..Len(entry.halfHours) |->
                                entry.halfHours[i].consumptionKwh])
        daily_cost == Sum([i \in 1..Len(entry.halfHours) |->
                               entry.halfHours[i].consumptionDollarIncGst])
    IN [date |-> entry.usageDate,
        usage |-> Round(daily_usage, 3),
        cost |-> Round(daily_cost, 2),
        daily_usage |-> daily_usage, daily_cost |-> daily_cost]

\* The intervals of the day can be summed: float() raises for none.
Summable(entry) ==
    \A i \in 1..Len(entry.halfHours) : entry.halfHours[i].numeric

\* validate_usage_data(data): a day that is no dictionary (entry.get raises
\* AttributeError, caught) or has no usageDate is skipped. The date range
\* is tracked for every other day, before its intervals are read; a day
\* whose intervals cannot be summed raises inside the try and is skipped
\* too. The others are kept in the order of the payload, and the totals are
\* rounded from the sums of the days' amounts before rounding.
validate_usage_data(d) ==
    IF ~d.islist THEN Raises("DataValidationError")
    ELSE LET dated == SelectSeq(d.items,
                          LAMBDA entry : entry.isdict /\ entry.usageDate # NoDate)
             kept == SelectSeq(dated, Summable)
             days == [i \in 1..Len(kept) |-> DailyEntry(kept[i])]
             dates == {dated[i].usageDate : i \in 1..Len(dated)}
         IN Returns(
             [from_date |-> IF dates = {} THEN NoDate
                            ELSE CHOOSE a \in dates : \A b \in dates : a <= b,
              to_date |-> IF dates = {} THEN NoDate
                          ELSE CHOOSE a \in dates : \A b \in dates : a >= b,
              usage_data |-> [i \in 1..Len(days) |->
                                 [date |-> days[i].date, usage |-> days[i].usage,
                                  cost |-> days[i].cost]],
              total_usage |-> Round(Sum([i \in 1..Len(days) |->
                                             days[i].daily_usage]), 2),
              total_cost |-> Round(Sum([i \in 1..Len(days) |->
                                            days[i].daily_cost]), 2)])

\* The daily entries validate_usage_data returned, expressed as a payload
\* again: each day with one interval that carries the day's amounts.
AsPayload(usage_data) ==
    Payload(TRUE, [i \in 1..Len(usage_data) |->
                      UsageEntry(usage_data[i].date,
                                 <<Interval(usage_data[i].usage,
                                            usage_data[i].cost)>>)])

\* No validator called yet.
NotValidated == [fn |-> "none", again |-> FALSE, raised |-> "none", ret |-> <<>>]

\* The call fn(payload) and what it did.
Validated(fn, again, result) ==
    [fn |-> fn, again |-> again, raised |-> result.raised, ret |-> result.ret]

\* the coordinator passes the answer of get_properties to
\* validate_properties_data
validate_properties ==
    /\ raw_properties.received
    /\ validation.fn = "none"
    /\ validation' = Validated("validate_properties_data", FALSE,
                              validate_properties_data(raw_properties))
    /\ UNCHANGED <<raw_properties, raw_usage, nonDvVars>>

\* the coordinator passes the answer of get_usage_data to
\* validate_usage_data
validate_usage ==
    /\ raw_usage.received
    /\ validation.fn = "none"
    /\ validation' = Validated("validate_usage_data", FALSE,
                              validate_usage_data(raw_usage))
    /\ UNCHANGED <<raw_properties, raw_usage, nonDvVars>>

\* validate_usage_data is called on the daily entries it returned
validate_usage_again ==
    /\ validation.fn = "validate_usage_data"
    /\ ~validation.again
    /\ validation.raised = "none"
    /\ raw_usage' = AsPayload(validation.ret[1].usage_data)
    /\ validation' = Validated("validate_usage_data", TRUE,
                              validate_usage_data(raw_usage'))
    /\ UNCHANGED <<raw_properties, nonDvVars>>

\* One answer of the provider, to get_properties or to get_usage_data.
DvInit ==
    /\ \/ raw_properties \in PropertiesPayloads /\ raw_usage = NoPayload
       \/ raw_properties = NoPayload /\ raw_usage \in UsagePayloads
    /\ validation = NotValidated

\* the validators are not called
DvIdle ==
    /\ raw_properties = NoPayload
    /\ raw_usage = NoPayload
    /\ validation = NotValidated

(***************************************************************************)
(* performance.py: DataProcessor.get_cached_calculation. The method is     *)
(* synchronous: a call runs from its first line to its return without      *)
(* another caller running in between, so it is one action.                 *)
(***************************************************************************)
\* self._cache_ttl = timedelta(minutes=5), in seconds
CacheTtl == 300

\* get_cached_calculation is not called more often than this
MaxCalls == 4

\* The clock of the cache's specification moves by a third of the TTL.
PcTick == CacheTtl \div 3

\* The cache keys in use, and what calculation_func can return; it can
\* raise as well.
CacheKeys == {"k1", "k2"}
CalcResults == {"r1", "r2"}
CalcOutcomes == CalcResults \cup {"raises"}

\* now - cached_time < self._cache_ttl
CacheFresh_Inclusive(entry, t) == t - entry.time <= CacheTtl
CacheFresh(entry, t) == t - entry.time < CacheTtl

\* No get_cached_calculation call yet. (n: the number of the call;
\* computed: how often it called calculation_func; found, age: whether the
\* key was in the cache and how old its entry was.)
CacheCallNone ==
    [n |-> 0, key |-> "none", found |-> FALSE, age |-> 0, hit |-> FALSE,
     computed |-> 0, raised |-> "none", ret |-> <<>>]

\* get_cached_calculation(cache_key, calculation_func), where
\* calculation_func, if called, returns `outcome` or raises
get_cached_calculation(cache_key, outcome) ==
    LET found == cache_key \in DOMAIN processed_cache
        c == [CacheCallNone EXCEPT
                 !.n = cache_call.n + 1, !.key = cache_key, !.found = found,
                 !.age = IF found THEN now - processed_cache[cache_key].time
                         ELSE 0]
    IN /\ cache_call.n < MaxCalls
       /\ IF found /\ CacheFresh(processed_cache[cache_key], now)
          THEN /\ cache_hits' = cache_hits + 1
               /\ cache_call' =
                      [c EXCEPT !.hit = TRUE,
                                !.ret = <<processed_cache[cache_key].result>>]
               /\ UNCHANGED <<cache_misses, processed_cache>>
          ELSE /\ cache_misses' = cache_misses + 1
               /\ IF outcome = "raises"
                  THEN /\ cache_call' =
                              [c EXCEPT !.computed = 1, !.raised = "Exception"]
                       /\ UNCHANGED processed_cache
                  ELSE /\ processed_cache' =
                              Store(processed_cache, cache_key,
                                    [time |-> now, result |-> outcome])
                       /\ cache_call' =
                              [c EXCEPT !.computed = 1, !.ret = <<outcome>>]
               /\ UNCHANGED cache_hits
       /\ UNCHANGED <<clockVars, nonPcVars>>

\* clear_cache(): self._processed_cache.clear()
clear_cache ==
    /\ processed_cache # <<>>
    /\ processed_cache' = <<>>
    /\ UNCHANGED <<cache_hits, cache_misses, cache_call, clockVars, nonPcVars>>

\* DataProcessor.__init__ and PerformanceMonitor.__init__
PcInit ==
    /\ processed_cache = <<>>
    /\ cache_hits = 0
    /\ cache_misses = 0
    /\ cache_call = CacheCallNone

(***************************************************************************)
(* performance.py: BulkOperationManager.async_bulk_refresh_coordinators.   *)
(* A coordinator is its position in the list passed in; its username is    *)
(* the key of its result. The tasks of a batch run when the call awaits    *)
(* asyncio.gather and end in any order; _refresh_single_coordinator        *)
(* returns True when coordinator.async_refresh() returns and False when    *)
(* it raises.                                                              *)
(***************************************************************************)
\* the longest list of coordinators passed in
MaxCoordinators == 3

\* batch_size: int = 3
DefaultBatchSize == 3
BatchSizes == {1, 2, DefaultBatchSize}

\* The usernames of the coordinators (RedEnergyDataCoordinator.username).
\* A configuration entry is unique in username and client id together, so
\* two coordinators can have the same username.
Usernames == {"u1", "u2"}

\* No async_bulk_refresh_coordinators call yet. (i: the start of the batch,
\* as in range(0, len(coordinators), batch_size); started: the coordinators
\* a refresh task was created for; outcomes: what the tasks that ended
\* returned.)
BulkRefreshIdle ==
    [pc |-> "idle", coordinators |-> <<>>, batch_size |-> 0, i |-> 0,
     started |-> {}, outcomes |-> <<>>, results |-> <<>>]

\* batch = coordinators[i:i + batch_size], as positions in the list
Batch(coordinators, i, batch_size) ==
    {j \in 1..Len(coordinators) : i < j /\ j <= i + batch_size}

\* for (username, _), result in zip(tasks, batch_results):
\*     results[username] = result
\* for the positions from `j` to `last`, in this order
RECURSIVE ProcessResults(_, _, _, _, _)
ProcessResults(results, coordinators, outcomes, j, last) ==
    IF j > last THEN results
    ELSE ProcessResults(Store(results, coordinators[j], outcomes[j]),
                        coordinators, outcomes, j + 1, last)

\* the call creates the tasks of the batch that starts at i and awaits
\* asyncio.gather
StartBatch(b, i) ==
    [b EXCEPT !.pc = "gather", !.i = i,
              !.started = b.started \cup Batch(b.coordinators, i, b.batch_size)]

\* async_bulk_refresh_coordinators(coordinators, batch_size) is called
bulk_refresh_begin(coordinators, batch_size) ==
    /\ bulk_refresh.pc = "idle"
    /\ LET b == [BulkRefreshIdle EXCEPT !.coordinators = coordinators,
                                         !.batch_size = batch_size]
       IN bulk_refresh' = IF coordinators = <<>> THEN [b EXCEPT !.pc = "done"]
                          ELSE StartBatch(b, 0)
    /\ UNCHANGED nonBrVars

\* the task of the coordinator j ends: its async_refresh returned (ok) or
\* raised
refresh_single_coordinator_done(j, ok) ==
    /\ bulk_refresh.pc = "gather"
    /\ j \in bulk_refresh.started \ DOMAIN bulk_refresh.outcomes
    /\ bulk_refresh' =
           [bulk_refresh EXCEPT !.outcomes = Store(bulk_refresh.outcomes, j, ok)]
    /\ UNCHANGED nonBrVars

\* asyncio.gather returns: the results of the batch are processed and the
\* call sleeps before the next batch, or returns
bulk_refresh_gathered ==
    LET b == bulk_refresh
        batch == Batch(b.coordinators, b.i, b.batch_size)
        last == CHOOSE j \in batch : \A k \in batch : k <= j
    IN /\ b.pc = "gather"
       /\ batch \subseteq DOMAIN b.outcomes
       /\ bulk_refresh' =
              [b EXCEPT !.results = ProcessResults(b.results, b.coordinators,
                                                   b.outcomes, b.i + 1, last),
                        !.pc = IF b.i + b.batch_size < Len(b.coordinators)
                               THEN "sleep" ELSE "done"]
       /\ UNCHANGED nonBrVars

\* asyncio.sleep(0.5) returns: the next batch
bulk_refresh_slept ==
    /\ bulk_refresh.pc = "sleep"
    /\ bulk_refresh' =
           StartBatch(bulk_refresh, bulk_refresh.i + bulk_refresh.batch_size)
    /\ UNCHANGED nonBrVars

\* BulkOperationManager.__init__
BrInit == bulk_refresh = BulkRefreshIdle

(***************************************************************************)
(* coordinator.py: RedEnergyDataCoordinator._bulk_update_data, the bulk    *)
(* update path, split at its awaits. Every exception of the run reaches    *)
(* its `except Exception`, which awaits async_handle_error and raises the  *)
(* exception again.                                                        *)
(***************************************************************************)
\* no more than this many runs of _bulk_update_data begin
MaxBulkRuns == 2

\* the variables a run of _bulk_update_data leaves alone
nonBuVars ==
    <<clockVars, auth, call, cbVars, erVars, selected_accounts, services, data,
      cycles, cycle_seq, rotation, read, dvVars, pcVars, brVars, cfVars>>

\* No run of _bulk_update_data yet. (n: the number of the run; processed:
\* the ids of the dictionary passed to batch_process_properties.)
BulkIdle ==
    [pc |-> "idle", n |-> 0, requests |-> <<>>, processed |-> {},
     result |-> "none", cause |-> "none"]

\* What DataProcessor.batch_process_properties returns: it is a plain
\* method (def, not async def) that returns the dictionary `results`.
BatchProcessReturns == "dict"

\* `await value`: the exception it raises ("none" for an awaitable).
Await(value) == IF value \in {"coroutine", "task"} THEN "none" ELSE "TypeError"

\* The run `b` raises `exception`: the except clause awaits
\* async_handle_error.
BulkFail(b, exception) ==
    bulk' = [b EXCEPT !.pc = "handle_error", !.cause = exception]

\* usage_data = await self._data_processor.batch_process_properties(...)
\* with the selected properties of the list `props`, and what follows it.
BulkProcess(b, props) ==
    LET processed == {props[i].id : i \in 1..Len(props)} \cap selected_accounts
        awaited == Await(BatchProcessReturns)
    IN IF awaited # "none"
       THEN BulkFail([b EXCEPT !.processed = processed], awaited)
       ELSE bulk' = [b EXCEPT !.processed = processed, !.pc = "fetch"]

\* "Get base data if needed"
BulkBaseData(b) ==
    IF customer_data = None
    THEN bulk' = [b EXCEPT !.pc = "customer",
                           !.requests = Append(b.requests, "customer")]
    ELSE BulkProcess(b, properties)

\* _bulk_update_data() is called
bulk_update_begin ==
    /\ bulk.pc \in {"idle", "done"}
    /\ bulk.n < MaxBulkRuns
    /\ LET b == [BulkIdle EXCEPT !.n = bulk.n + 1]
       IN IF ~Truthy(access_token)
          THEN bulk' = [b EXCEPT !.pc = "authenticate",
                                 !.requests = <<"authenticate">>]
          ELSE BulkBaseData(b)
    /\ UNCHANGED <<access_token, refresh_token, token_expires, customer_data,
                   properties, nonBuVars>>

\* self.api.authenticate(...) of the run returns or raises
bulk_authenticated(o) ==
    /\ bulk.pc = "authenticate"
    /\ LET st == IF o = "ok" THEN ExchangeStore(GoodBody, TokenState, now)
                 ELSE TokenState
       IN /\ access_token' = st.access_token
          /\ refresh_token' = st.refresh_token
          /\ token_expires' = st.token_expires
    /\ IF o = "ok" THEN BulkBaseData(bulk)
       ELSE BulkFail(bulk, "RedEnergyAuthError")
    /\ UNCHANGED <<customer_data, properties, nonBuVars>>

\* get_customer_data() of the run returns or raises, and
\* validate_customer_data returns or raises
bulk_customer(o) ==
    /\ bulk.pc = "customer"
    /\ IF o = "ok"
       THEN /\ customer_data' = "customer"
            /\ bulk' = [bulk EXCEPT !.pc = "properties",
                                    !.requests = Append(@, "properties")]
       ELSE /\ BulkFail(bulk, ExceptionOf(o))
            /\ UNCHANGED customer_data
    /\ UNCHANGED <<access_token, refresh_token, token_expires, properties,
                   nonBuVars>>

\* get_properties() of the run returns or raises, and
\* validate_properties_data returns or raises
bulk_properties(o, list) ==
    /\ bulk.pc = "properties"
    /\ IF o = "ok"
       THEN /\ properties' = list
            /\ BulkProcess(bulk, list)
       ELSE /\ BulkFail(bulk, ExceptionOf(o))
            /\ UNCHANGED properties
    /\ UNCHANGED <<access_token, refresh_token, token_expires, customer_data,
                   nonBuVars>>

\* async_handle_error(err, ErrorType.COORDINATOR_UPDATE, ...) returns: the
\* except clause raises the exception again
bulk_error_handled ==
    /\ bulk.pc = "handle_error"
    /\ bulk' = [bulk EXCEPT !.pc = "done", !.result = "raised"]
    /\ UNCHANGED <<access_token, refresh_token, token_expires, customer_data,
                   properties, nonBuVars>>

BuInit == bulk = BulkIdle

\* the performance layer and the bulk paths are not used
PfIdle == PcInit /\ BrInit /\ BuInit

(***************************************************************************)
(* config_flow.py: validate_input and ConfigFlow                           *)
(***************************************************************************)
\* The answers to get_properties during the configuration flow: a
\* dictionary, or a list of up to MaxProperties elements.
FlowProperties ==
    {Payload(FALSE, <<>>)}
    \cup {Payload(TRUE, items) :
             items \in ListsUpTo({RawProperty("p1", <<>>), RawProperty("p2", <<>>),
                                   NoProperty}, MaxProperties)}

\* The answers to get_customer_data: a customer with a name, one without.
FlowCustomers == {[name |-> "Test User"], [name |-> Absent]}

\* What a request of validate_input can do: answer, or raise
\* RedEnergyAuthError (from _ensure_valid_token) or an aiohttp.ClientError.
FlowOutcomes == {"ok", "RedEnergyAuthError", "ClientError"}

\* The body of the try statement of validate_input: auth_success is what
\* test_credentials returned.
ValidateInputBody(auth_success, customer_outcome, customer, properties_outcome, raw) ==
    IF ~auth_success THEN Raises("InvalidAuth")
    ELSE IF customer_outcome # "ok" THEN Raises(customer_outcome)
    ELSE IF properties_outcome # "ok" THEN Raises(properties_outcome)
    ELSE LET validated == validate_properties_data(raw)
         IN IF validated.raised # "none" THEN validated
            ELSE IF validated.ret[1] = <<>> THEN Raises("NoAccounts")
            ELSE Returns([customer_data |-> customer,
                          accounts |-> validated.ret[1]])

\* validate_input(hass, data): config_valid is whether validate_config_data
\* accepts the input. The except clauses of the try statement turn
\* RedEnergyAuthError into InvalidAuth, every other RedEnergyAPIError into
\* CannotConnect, and every other Exception into UnknownError.
validate_input(config_valid, auth_success, customer_outcome, customer, properties_outcome, raw) ==
    IF ~config_valid THEN Raises("InvalidAuth")
    ELSE LET body == ValidateInputBody(auth_success, customer_outcome,
                                       customer, properties_outcome, raw)
         IN IF body.raised = "none" THEN body
            ELSE IF body.raised = "RedEnergyAuthError" THEN Raises("InvalidAuth")
            ELSE IF body.raised = "RedEnergyAPIError" THEN Raises("CannotConnect")
            ELSE Raises("UnknownError")

\* The errors dictionary of async_step_user after validate_input raised.
UserErrors(raised) ==
    CASE raised = "CannotConnect" -> <<"base", "cannot_connect">>
      [] raised = "InvalidAuth" -> <<"base", "auth_failed">>
      [] raised = "InvalidClientId" -> <<"client_id", "invalid_client_id">>
      [] raised = "NoAccounts" -> <<"base", "no_accounts">>
      [] raised = "UnknownError" -> <<"base", "unknown">>

NoErrors == <<>>

\* Why validate_input did not return: the input has not the format of
\* credentials; the provider rejected the credentials or the token; a
\* request failed; the answer to get_properties was no list; it held no
\* valid property.
ValidationFailure(config_valid, auth_success, customer_outcome, properties_outcome, raw) ==
    IF ~config_valid THEN "configuration"
    ELSE IF ~auth_success THEN "authentication"
    ELSE IF customer_outcome # "ok"
    THEN (IF customer_outcome = "ClientError" THEN "connection"
          ELSE "authentication")
    ELSE IF properties_outcome # "ok"
    THEN (IF properties_outcome = "ClientError" THEN "connection"
          ELSE "authentication")
    ELSE IF ~raw.islist THEN "invalid"
    ELSE IF \A i \in 1..Len(raw.items) : ~raw.items[i].isdict THEN "no_accounts"
    ELSE "none"

\* ConfigFlow.__init__, before the first step. (type, step_id and errors:
\* the result of the last step; handled: the step whose user_input the last
\* call handled; raised and failure: what validate_input raised in it, and
\* why; entry: the arguments of async_create_entry.)
NewFlow ==
    [type |-> "none", step_id |-> "none", errors |-> NoErrors,
     raised |-> "none", failure |-> "none", handled |-> "none",
     customer_data |-> <<>>, accounts |-> <<>>, selected_accounts |-> {},
     entry |-> <<>>]

CfInit == flow = NewFlow

\* self.async_show_form(step_id=..., errors=...)
ShowForm(f, handled, step_id, errors) ==
    [f EXCEPT !.type = "form", !.step_id = step_id, !.errors = errors,
              !.handled = handled]

\* The host calls the step whose form is shown, async_step_user first.
Shown(step_id) ==
    \/ flow.type = "form" /\ flow.step_id = step_id
    \/ flow.type = "none" /\ step_id = "user"

\* async_step_user(None): the empty form
step_user_form ==
    /\ flow.type = "none"
    /\ flow' = ShowForm(flow, "none", "user", NoErrors)
    /\ UNCHANGED nonCfVars

\* async_step_user(user_input); configured: an entry with the unique id
\* username_client_id exists, and _abort_if_unique_id_configured raises
\* AbortFlow. (The branch for an async_show_form that is an AsyncMock is
\* taken in tests only.)
step_user(config_valid, auth_success, customer_outcome, customer, properties_outcome, raw, configured) ==
    /\ Shown("user")
    /\ LET info == validate_input(config_valid, auth_success, customer_outcome,
                                  customer, properties_outcome, raw)
           failure == ValidationFailure(config_valid, auth_success,
                                        customer_outcome, properties_outcome, raw)
           stored == [flow EXCEPT !.raised = "none", !.failure = "none",
                                  !.customer_data = <<info.ret[1].customer_data>>,
                                  !.accounts = info.ret[1].accounts]
       IN flow' =
              IF info.raised # "none"
              THEN ShowForm([flow EXCEPT !.raised = info.raised,
                                         !.failure = failure],
                            "user", "user", UserErrors(info.raised))
              ELSE IF configured
              THEN [stored EXCEPT !.type = "abort", !.handled = "user"]
              ELSE IF Len(stored.accounts) = 1
              THEN ShowForm([stored EXCEPT !.selected_accounts =
                                               {stored.accounts[1].id}],
                            "user", "service_select", NoErrors)
              ELSE ShowForm(stored, "user", "account_select", NoErrors)
    /\ UNCHANGED nonCfVars

\* async_step_account_select(user_input), with
\* selected = user_input.get(DATA_SELECTED_ACCOUNTS, [])
step_account_select(selected) ==
    /\ Shown("account_select")
    /\ flow' =
           IF selected = {}
           THEN ShowForm(flow, "account_select", "account_select",
                         <<"selected_accounts", "select_account">>)
           ELSE ShowForm([flow EXCEPT !.selected_accounts = selected],
                         "account_select", "service_select", NoErrors)
    /\ UNCHANGED nonCfVars

\* the title of the entry
EntryTitle(f) ==
    [name |-> IF f.customer_data[1].name = Absent THEN "Red Energy"
              ELSE f.customer_data[1].name,
     accounts |-> IF Cardinality(f.selected_accounts) > 1
                  THEN Cardinality(f.selected_accounts) ELSE 0]

\* async_step_service_select(user_input): async_create_entry with
\* user_input.get("services", [SERVICE_TYPE_ELECTRICITY]); chosen is <<>>
\* for an input without the key
step_service_select(chosen) ==
    /\ Shown("service_select")
    /\ flow' = [flow EXCEPT
                   !.type = "create_entry",
                   !.handled = "service_select",
                   !.entry = <<[title |-> EntryTitle(flow),
                                selected_accounts |-> flow.selected_accounts,
                                services |-> IF chosen = <<>>
                                             THEN {"electricity"}
                                             ELSE chosen[1]]>>]
    /\ UNCHANGED nonCfVars

\* The selections the forms can submit: the multi_select of the accounts
\* shown, and of the two service types (or no "services" key).
AccountChoices == SUBSET {flow.accounts[i].id : i \in 1..Len(flow.accounts)}
ServiceChoices == {<<>>} \cup {<<c>> : c \in SUBSET {"electricity", "gas"}}

(***************************************************************************)
(* The specifications.                                                     *)
(***************************************************************************)
Init == ClockInit /\ ApiInit /\ CbIdle /\ ErIdle /\ CoIdle /\ DvIdle /\ PfIdle /\ CfInit

Next ==
    \/ \E o \in LoginOutcomes : authenticate_login(o)
    \/ \E o \in LoginOutcomes : refresh_credentials_login(o)
    \/ \E o \in DiscoveryOutcomes : authenticate_discovery(o)
    \/ authenticate_pkce
    \/ \E o \in AuthCodeOutcomes : authenticate_authcode(o)
    \/ \E o \in HttpOutcomes \ {"200"} : authenticate_exchange(o, NoBody)
    \/ \E body \in TokenBodies : authenticate_exchange("200", body)
    \/ \E kind \in ApiCalls : api_call(kind)
    \/ \E o \in DiscoveryOutcomes : refresh_discovery_response(o)
    \/ \E o \in HttpOutcomes \ {"200"} : refresh_token_response(o, NoBody)
    \/ \E body \in TokenBodies : refresh_token_response("200", body)
    \/ \E o \in HttpOutcomes : api_response(o)
    \/ ClockAdvance(ApiTick)

Spec == Init /\ [][Next]_vars

\* The circuit breaker alone, its three methods called in any order.
InitCB == ClockInit /\ ApiIdle /\ CbInit /\ ErIdle /\ CoIdle /\ DvIdle /\ PfIdle /\ CfInit

NextCB ==
    \/ cb_record_success
    \/ cb_record_failure
    \/ cb_is_open
    \/ \E d \in BreakerTicks : ClockAdvance(d)

SpecCB == InitCB /\ [][NextCB]_vars

\* The error recovery system: the errors the host passes to
\* async_handle_error, one call at a time, while time passes.
InitER ==
    /\ ClockInit /\ ApiIdle /\ CbIdle /\ ErInit /\ CoIdle /\ DvIdle /\ PfIdle /\ CfInit
    /\ raised_type \in ErrorTypesRaised

NextER ==
    \/ /\ Len(error_history) < MaxErrors
       /\ \E error_type \in ErrorTypesRaised, context \in Contexts :
              handle_error(error_type, context)
    \/ \E outcome \in ActionOutcomes : recovery_action_done(outcome)
    \/ ClockAdvance(ErTick)

SpecER == InitER /\ [][NextER]_vars

\* The coordinator: refreshes invoked by the scheduler, the refresh_data
\* service, a change of the selection and a rotation of the credentials,
\* at any time, with the provider answering each request in any way.
InitCO == ClockInit /\ ApiIdle /\ CbIdle /\ ErIdle /\ CoInit /\ DvIdle /\ PfIdle /\ CfInit

NextCO ==
    \/ async_refresh
    \/ \E s \in Selections : update_account_selection(s.accounts, s.services)
    \/ \E k \in CycleSlots, o \in {"ok", "AuthError"} : cycle_authenticated(k, o)
    \/ \E k \in CycleSlots, o \in BaseOutcomes : cycle_customer(k, o)
    \/ \E k \in CycleSlots, o \in BaseOutcomes, list \in PropertyLists :
           cycle_properties(k, o, list)
    \/ \E k \in CycleSlots, o \in UsageOutcomes : cycle_usage(k, o)
    \/ refresh_credentials_begin
    \/ \E o \in {"ok", "AuthError"} : refresh_credentials_authenticated(o)
    \/ refresh_credentials_return

SpecCO == InitCO /\ [][NextCO]_vars

\* The coordinator and its consumers: a host that invokes refreshes and
\* rotations one at a time, and accessors called at any point.
NoCycleInFlight == FreeSlots = CycleSlots

NextRD ==
    \/ NoCycleInFlight /\ async_refresh
    \/ \E k \in CycleSlots, o \in {"ok", "AuthError"} : cycle_authenticated(k, o)
    \/ \E k \in CycleSlots, o \in BaseOutcomes : cycle_customer(k, o)
    \/ \E k \in CycleSlots, o \in BaseOutcomes, list \in PropertyLists :
           cycle_properties(k, o, list)
    \/ \E k \in CycleSlots, o \in UsageOutcomes : cycle_usage(k, o)
    \/ \E name \in Accessors, property_id \in Accounts,
          service_type \in ServiceTypes :
           accessor(name, property_id, service_type)

SpecRD == InitCO /\ [][NextRD]_vars

\* The configuration flow: the host calls the step whose form is shown with
\* what the user submitted, while the provider answers in any way.
InitCF == ClockInit /\ ApiIdle /\ CbIdle /\ ErIdle /\ CoIdle /\ DvIdle /\ PfIdle /\ CfInit

NextCF ==
    \/ step_user_form
    \/ \E config_valid \in BOOLEAN, auth_success \in BOOLEAN,
          customer_outcome \in FlowOutcomes, customer \in FlowCustomers,
          properties_outcome \in FlowOutcomes, raw \in FlowProperties,
          configured \in BOOLEAN :
           step_user(config_valid, auth_success, customer_outcome,
                     customer, properties_outcome, raw, configured)
    \/ \E selected \in AccountChoices : step_account_select(selected)
    \/ \E chosen \in ServiceChoices : step_service_select(chosen)

SpecCF == InitCF /\ [][NextCF]_vars

\* The coordinator with one rotation of the credentials: refreshes are
\* invoked one at a time, and async_refresh_credentials is called once,
\* between two refreshes, when the coordinator holds the token of an earlier
\* refresh.
NextRC ==
    \/ NoCycleInFlight /\ rotation.pc \in {"idle", "done"} /\ async_refresh
    \/ \E k \in CycleSlots, o \in {"ok", "AuthError"} : cycle_authenticated(k, o)
    \/ \E k \in CycleSlots, o \in BaseOutcomes : cycle_customer(k, o)
    \/ \E k \in CycleSlots, o \in BaseOutcomes, list \in PropertyLists :
           cycle_properties(k, o, list)
    \/ \E k \in CycleSlots, o \in UsageOutcomes : cycle_usage(k, o)
    \/ /\ NoCycleInFlight /\ rotation.pc = "idle" /\ Truthy(access_token)
       /\ refresh_credentials_begin
    \/ \E o \in {"ok", "AuthError"} : refresh_credentials_authenticated(o)
    \/ refresh_credentials_return

SpecRC == InitCO /\ [][NextRC]_vars

\* The validators alone: one answer of the provider, validated.
InitDV == ClockInit /\ ApiIdle /\ CbIdle /\ ErIdle /\ CoIdle /\ DvInit /\ PfIdle /\ CfInit

NextDV ==
    \/ validate_properties
    \/ validate_usage
    \/ validate_usage_again

SpecDV == InitDV /\ [][NextDV]_vars

\* The calculation cache: callers that ask for the two keys at any time,
\* while time passes and the cache is cleared now and then.
InitPC == ClockInit /\ ApiIdle /\ CbIdle /\ ErIdle /\ CoIdle /\ DvIdle /\ PfIdle /\ CfInit

NextPC ==
    \/ \E cache_key \in CacheKeys, outcome \in CalcOutcomes :
           get_cached_calculation(cache_key, outcome)
    \/ clear_cache
    \/ ClockAdvance(PcTick)

SpecPC == InitPC /\ [][NextPC]_vars

\* One bulk refresh of a list of coordinators, each refresh ending in
\* either way at any time.
InitBR == ClockInit /\ ApiIdle /\ CbIdle /\ ErIdle /\ CoIdle /\ DvIdle /\ PfIdle /\ CfInit

NextBR ==
    \/ \E coordinators \in ListsUpTo(Usernames, MaxCoordinators),
          batch_size \in BatchSizes :
           bulk_refresh_begin(coordinators, batch_size)
    \/ \E j \in 1..MaxCoordinators, ok \in BOOLEAN :
           refresh_single_coordinator_done(j, ok)
    \/ bulk_refresh_gathered
    \/ bulk_refresh_slept

SpecBR == InitBR /\ [][NextBR]_vars

\* The bulk update path of a coordinator, with the provider answering
\* each request in any way.
InitBU == ClockInit /\ ApiIdle /\ CbIdle /\ ErIdle /\ CoInit /\ DvIdle /\ PfIdle /\ CfInit

NextBU ==
    \/ bulk_update_begin
    \/ \E o \in {"ok", "AuthError"} : bulk_authenticated(o)
    \/ \E o \in BaseOutcomes : bulk_customer(o)
    \/ \E o \in BaseOutcomes, list \in PropertyLists : bulk_properties(o, list)
    \/ bulk_error_handled

SpecBU == InitBU /\ [][NextBU]_vars

\* The error recovery system late in a long run, when the history fills
\* up and the oldest records go.
InitEH ==
    ClockInit /\ ApiIdle /\ CbIdle /\ ErLongRun /\ CoIdle /\ DvIdle /\ PfIdle /\ CfInit

NextEH ==
    \/ /\ ErrorsHandled < HistoryMaxLen + MaxOverflow
       /\ \E context \in Contexts : handle_error("api_rate_limit", context)
    \/ \E outcome \in ActionOutcomes : recovery_action_done(outcome)
    \/ ClockAdvance(ErTick)

SpecEH == InitEH /\ [][NextEH]_vars

\* Termination: a coordinator whose refreshes are invoked one after the
\* other, or an error recovery system that is given errors, with a provider that
\* answers, refuses or never responds. Every request of the API client
\* runs under async_timeout.timeout(API_TIMEOUT), so each awaited request
\* comes back (with TimeoutError at the latest), and each awaited recovery
\* action returns or raises: the steps that end an await are taken when
\* they stay possible.
MaxRecoveries == 1

InitLV ==
    /\ ClockInit /\ ApiIdle /\ CbIdle /\ ErInit /\ DvIdle /\ PfIdle /\ CfInit
    /\ \/ CoInit /\ raised_type = "none"
       \/ CoIdle /\ raised_type \in ErrorTypesRaised

\* the await of the run in slot k ends
CycleStep(k) ==
    \/ \E o \in {"ok", "AuthError"} : cycle_authenticated(k, o)
    \/ \E o \in BaseOutcomes \cup {"timeout"} : cycle_customer(k, o)
    \/ \E o \in BaseOutcomes \cup {"timeout"}, list \in PropertyLists :
           cycle_properties(k, o, list)
    \/ \E o \in UsageOutcomes : cycle_usage(k, o)

\* the await of the recovery action ends
RecoveryStep == \E outcome \in ActionOutcomes : recovery_action_done(outcome)

NextLV ==
    \/ raised_type = "none" /\ NoCycleInFlight /\ async_refresh
    \/ \E k \in CycleSlots : CycleStep(k)
    \/ /\ ErrorsHandled < MaxRecoveries
       /\ \E error_type \in ErrorTypesRaised, context \in Contexts :
              handle_error(error_type, context)
    \/ RecoveryStep

SpecLV ==
    /\ InitLV
    /\ [][NextLV]_vars
    /\ \A k \in CycleSlots : WF_vars(CycleStep(k))
    /\ WF_vars(RecoveryStep)

(***************************************************************************)
(* The token state machine of the API client (under Spec).                 *)
(***************************************************************************)
\* s is an initial segment of t
IsPrefix(s, t) == Len(s) <= Len(t) /\ \A i \in 1..Len(s) : s[i] = t[i]

\* The requests of a call that refreshes: discovery, one token request with
\* grant_type=refresh_token, then the API request itself.
RefreshingCall(kind) == <<"discovery", "token:grant_type=refresh_token", kind>>

\* C1: no API request is sent with an access token whose recorded expiry is
\* at or before the time of sending, unless the same call attempted a token
\* refresh first.
C1_NoStaleTokenWithoutRefresh ==
    (call.sent /\ call.sent_stale) => call.refreshed

\* C1's case: a call found its token expired, refreshed it and sent its
\* request with the new, unexpired token.
C1_Witness ==
    /\ call.at_start = "expired_with_refresh"
    /\ call.refreshed /\ call.sent /\ ~call.sent_stale

\* C2: the steps of a run of authenticate() are an initial segment of login,
\* discovery, PKCE, authorization code, token exchange (in that order, each
\* at most once, none before the previous one succeeded), and the run
\* returns success only when all five were issued and the token exchange
\* stored the access token.
C2_FixedStepOrder ==
    /\ IsPrefix(auth.steps, AuthOrder)
    /\ auth.pc \notin {"idle", "done"} =>
           /\ auth.failed = "none" /\ auth.result = "none"
           /\ auth.pc = AuthOrder[Len(auth.steps) + 1]
    /\ auth.result = "success" =>
           /\ auth.pc = "done" /\ auth.failed = "none"
           /\ auth.steps = AuthOrder
           /\ auth.stored

\* C2's case: a run of authenticate() returned success and left a token.
C2_Witness ==
    /\ auth.result = "success"
    /\ auth.steps = AuthOrder
    /\ Truthy(access_token)

\* C3: when a step of authenticate() fails, the run raises AuthError, the
\* failed step is the last one it issued (issued once, not retried), and no
\* later step is issued.
C3_FailedStepEndsRun ==
    /\ auth.failed # "none" =>
           /\ auth.result = "AuthError"
           /\ auth.pc = "done"
           /\ auth.steps # <<>>
           /\ auth.steps[Len(auth.steps)] = auth.failed
           /\ IsPrefix(auth.steps, AuthOrder)
    /\ auth.result = "AuthError" => auth.failed # "none"

\* C3's case: the authorization-code step failed after three good steps.
C3_Witness ==
    /\ auth.failed = "authcode"
    /\ auth.result = "AuthError"
    /\ Len(auth.steps) = 4

\* C4: a call that finds no access token, or an expired token and no refresh
\* token, raises AuthError without sending any request; a call that finds
\* an expired token and a refresh token sends discovery, then one token
\* request with grant_type=refresh_token, and only then its API request.
C4_EnsureValidToken ==
    /\ call.at_start \in {"no_token", "expired_no_refresh"} =>
           /\ call.pc = "done" /\ call.result = "AuthError"
           /\ call.requests = <<>> /\ ~call.sent
    /\ call.at_start = "expired_with_refresh" =>
           /\ call.refreshed
           /\ call.requests # <<>>
           /\ IsPrefix(call.requests, RefreshingCall(call.kind))
           /\ call.sent <=> (call.requests = RefreshingCall(call.kind))

\* C4's case: a call with an expired token went through the refresh and sent
\* its API request.
C4_Witness ==
    /\ call.at_start = "expired_with_refresh"
    /\ call.requests = RefreshingCall(call.kind)
    /\ call.result = "ok"

(***************************************************************************)
(* The circuit breaker's transitions (under SpecCB).                       *)
(***************************************************************************)
\* A step of SpecCB that is a call of the method `name` on cb.
CbCall(name) == now' = now /\ cb_op'.name = name

\* C5: starting from CLOSED, the breaker is OPEN, and is_open() returns
\* true, exactly when failure_threshold record_failure() calls have been
\* made with no record_success() between them; after fewer consecutive
\* failures, or after a record_success(), it is CLOSED and is_open()
\* returns false.
C5_OpensAtThreshold ==
    /\ (cb.state = "CLOSED") <=> (cb_op.consecutive < cb.failure_threshold)
    /\ (cb_op.name = "record_failure" /\ cb_op.from = "CLOSED") =>
           /\ (cb.state = "OPEN") <=> (cb_op.consecutive = cb.failure_threshold)
           /\ cb.state \in {"OPEN", "CLOSED"}
    /\ (cb.state = "OPEN" /\ now = cb.last_failure_time) => is_open(cb, now).ret
    /\ cb.state = "CLOSED" => ~is_open(cb, now).ret /\ is_open(cb, now).cb = cb
    /\ (cb_op.name = "is_open" /\ cb_op.from = "CLOSED") =>
           ~cb_op.ret /\ cb.state = "CLOSED"

\* C5's case: the failure_threshold-th consecutive failure of a breaker with
\* the default threshold has just opened it.
C5_Witness ==
    /\ cb.failure_threshold = DefaultFailureThreshold
    /\ cb_op.name = "record_failure" /\ cb_op.from = "CLOSED"
    /\ cb_op.consecutive = cb.failure_threshold
    /\ cb.state = "OPEN"

\* C6: on an OPEN breaker is_open() returns true (and leaves the breaker
\* alone) while less than recovery_timeout has passed since the last
\* recorded failure; once more than recovery_timeout has passed, the next
\* is_open() returns false and sets HALF_OPEN; record_success() on a
\* HALF_OPEN breaker sets CLOSED with failure_count = 0.
C6_HalfOpenAfterTimeout ==
    [][/\ (CbCall("is_open") /\ cb.state = "OPEN") =>
              /\ now - cb.last_failure_time < cb.recovery_timeout =>
                     cb_op'.ret /\ cb' = cb
              /\ now - cb.last_failure_time > cb.recovery_timeout =>
                     ~cb_op'.ret /\ cb'.state = "HALF_OPEN"
       /\ (CbCall("record_success") /\ cb.state = "HALF_OPEN") =>
              cb'.state = "CLOSED" /\ cb'.failure_count = 0
      ]_vars

\* C6's case: a breaker with the default timeout went OPEN, then HALF_OPEN
\* through is_open(), and record_success() has just closed it.
C6_Witness ==
    /\ cb.recovery_timeout = DefaultRecoveryTimeout
    /\ cb_op.name = "record_success" /\ cb_op.from = "HALF_OPEN"
    /\ cb.state = "CLOSED" /\ cb.failure_count = 0

\* C7: record_failure() on a HALF_OPEN breaker sets OPEN and restarts the
\* recovery timeout at the time of that failure: is_open() is true while
\* less than recovery_timeout has passed since it, and false (HALF_OPEN
\* again) once more has.
C7_HalfOpenFailureReopens ==
    [][/\ (CbCall("record_failure") /\ cb.state = "HALF_OPEN") =>
              cb'.state = "OPEN" /\ cb'.last_failure_time = now
       /\ (CbCall("is_open") /\ cb.state = "OPEN" /\ cb_op.reopened) =>
              /\ now - cb.last_failure_time < cb.recovery_timeout =>
                     cb_op'.ret /\ cb'.state = "OPEN"
              /\ now - cb.last_failure_time > cb.recovery_timeout =>
                     ~cb_op'.ret /\ cb'.state = "HALF_OPEN"
      ]_vars

\* C7's case: a breaker reopened from HALF_OPEN has answered is_open() with
\* true, later than the failure that reopened it.
C7_Witness ==
    /\ cb_op.name = "is_open" /\ cb_op.ret /\ cb_op.reopened
    /\ cb.state = "OPEN"
    /\ now > cb.last_failure_time

(***************************************************************************)
(* async_handle_error and the circuit breakers (under SpecER).             *)
(***************************************************************************)
\* A step that is the beginning of an async_handle_error call: it appends
\* the call's record to the history.
ErBegin == Len(error_history') = Len(error_history) + 1

\* The elements of a sequence.
Range(s) == {s[i] : i \in 1..Len(s)}

\* C8: a handle_error call that finds the breaker of its key OPEN, with less
\* than recovery_timeout passed since the last recorded failure, invokes no
\* recovery action and returns false, and leaves every breaker (the state
\* and the failure_count of its own among them) and the recovery statistics
\* as they were.
C8_OpenBreakerSkipsRecovery ==
    [][LET k == er_call'.key
       IN (/\ ErBegin
           /\ k \in DOMAIN circuit_breakers
           /\ circuit_breakers[k].state = "OPEN"
           /\ now - circuit_breakers[k].last_failure_time
                  < circuit_breakers[k].recovery_timeout)
          => /\ er_call'.pc = "done"
             /\ er_call'.result = FALSE
             /\ er_call'.invoked = <<>>
             /\ circuit_breakers'[k].state = "OPEN"
             /\ circuit_breakers'[k].failure_count = circuit_breakers[k].failure_count
             /\ circuit_breakers' = circuit_breakers
             /\ recovery_stats' = recovery_stats
      ]_vars

\* C8's case: a call was turned away by its open breaker, half a recovery
\* timeout or less after the failure that opened it.
C8_Witness ==
    /\ er_call.pc = "done" /\ er_call.gated
    /\ circuit_breakers[er_call.key].state = "OPEN"
    /\ now > circuit_breakers[er_call.key].last_failure_time
    /\ now - circuit_breakers[er_call.key].last_failure_time
           < circuit_breakers[er_call.key].recovery_timeout

\* C9: a handle_error call that attempts recovery leaves the breakers of
\* all other keys as they are, does not touch the failure count of its own
\* breaker while its recovery actions run, and when it returns has updated
\* its own breaker once: CLOSED with failure_count 0 when recovery
\* succeeded, one failure more, recorded at the time of return, when not.
C9_OwnBreakerUpdatedOnce ==
    [][LET k == er_call'.key
           before == IF k \in DOMAIN circuit_breakers
                     THEN circuit_breakers[k].failure_count ELSE 0
       IN now' = now =>
          /\ DOMAIN circuit_breakers' = DOMAIN circuit_breakers \cup {k}
          /\ \A x \in DOMAIN circuit_breakers :
                 x # k => circuit_breakers'[x] = circuit_breakers[x]
          /\ er_call'.pc = "action" =>
                 circuit_breakers'[k].failure_count = before
          /\ (er_call'.pc = "done" /\ ~er_call'.gated /\ er_call'.result) =>
                 /\ circuit_breakers'[k].state = "CLOSED"
                 /\ circuit_breakers'[k].failure_count = 0
          /\ (er_call'.pc = "done" /\ ~er_call'.gated /\ ~er_call'.result) =>
                 /\ circuit_breakers'[k].failure_count = before + 1
                 /\ circuit_breakers'[k].last_failure_time = now
      ]_vars

\* C9's case: a call recovered and closed its own breaker while the breaker
\* of another key kept its failures.
C9_Witness ==
    /\ er_call.pc = "done" /\ ~er_call.gated /\ er_call.result
    /\ circuit_breakers[er_call.key].failure_count = 0
    /\ \E x \in DOMAIN circuit_breakers :
           x # er_call.key /\ circuit_breakers[x].failure_count > 1

\* C10: each recovery action is limited by its own attempt counter, so a
\* call reports recovery failed only after every action of the error type
\* was attempted: after a failed retry the fallback is attempted next.
C10_EveryActionAttemptedBeforeFailure ==
    (er_call.pc = "done" /\ ~er_call.gated /\ ~er_call.result) =>
        \A i \in 1..Len(RecoveryActions(er_call.error_type)) :
            RecoveryActions(er_call.error_type)[i].action \in Range(er_call.invoked)

\* C11: a handle_error call for an authentication failure whose credential
\* refresh did not recover executes the user-notification action before it
\* reports failure: an authentication failure never ends without it.
C11_AuthFailureNotified ==
    (/\ er_call.pc = "done" /\ ~er_call.gated /\ ~er_call.result
     /\ er_call.error_type = "api_authentication")
    => "_notify_authentication_failure" \in Range(er_call.invoked)

(***************************************************************************)
(* The poll cycle of the coordinator (under SpecCO).                       *)
(***************************************************************************)
\* The requests for customer and properties, and the authentication.
BaseRequests == {"authenticate", "customer", "properties"}

\* The run `c` was at a service's usage when it ended: the last request it
\* issued is a usage request.
EndedAtUsage(c) ==
    /\ c.pc = "done"
    /\ c.requests # <<>>
    /\ c.requests[Len(c.requests)] \notin BaseRequests

\* The runs of _async_update_data in flight.
InFlight == {k \in CycleSlots : cycles[k].pc \notin {"idle", "done"}}

\* C12: the failure of one service's usage fetch or validation (HTTP error
\* status, timeout, malformed payload) is skipped and the cycle goes on: a
\* cycle that had come to the services' usage raises UpdateFailed only
\* because no service of any selected account produced usage data.
C12_ServiceFailureSkipped ==
    \A k \in CycleSlots :
        (EndedAtUsage(cycles[k]) /\ cycles[k].result = "UpdateFailed")
        => cycles[k].cause = "UpdateFailed"

\* C13: a refresh that ends in UpdateFailed leaves the published snapshot
\* as it was: no step of a run of _async_update_data changes self.data
\* except the step in which the run returns its snapshot.
C13_FailedRefreshKeepsSnapshot ==
    [][/\ \A k \in CycleSlots :
              (cycles'[k] # cycles[k] /\ cycles'[k].result = "UpdateFailed")
              => data' = data
       /\ data' # data =>
              \E k \in InFlight :
                  /\ cycles'[k].pc = "done" /\ cycles'[k].result = "ok"
                  /\ data'.last_update = cycles[k].seq
      ]_vars

\* C13's case: a refresh ended in UpdateFailed while the snapshot of an
\* earlier refresh is published.
C13_Witness ==
    \E k \in CycleSlots :
        /\ cycles[k].result = "UpdateFailed"
        /\ data.present /\ data.last_update < cycles[k].seq
        /\ data.usage_data # <<>>

\* C14: a reader sees either the whole previous snapshot or the whole new
\* one: the published snapshot is at every point the dictionary one run
\* returned, every service entry in it fetched by that run (its
\* last_updated is the snapshot's last_update), never a mixture of two
\* runs or a usage map still being filled.
C14_SnapshotIsWhole ==
    data.present =>
        /\ data.usage_data # <<>>
        /\ \A x \in DOMAIN data.usage_data :
               /\ data.usage_data[x].services # <<>>
               /\ \A t \in DOMAIN data.usage_data[x].services :
                      data.usage_data[x].services[t].last_updated
                          = data.last_update

\* C14's case: while the snapshot of an earlier run is published, another
\* run has stored a service's usage in its local map and is fetching more.
C14_Witness ==
    /\ data.present
    /\ \E k \in InFlight :
           /\ cycles[k].usage_data # <<>>
           /\ cycles[k].seq > data.last_update

\* C15: while a refresh of the coordinator is in flight, a refresh invoked
\* again (by the scheduler, the refresh_data service,
\* update_account_selection or refresh_credentials) does not begin a second
\* fetch sequence: at most one run of _async_update_data is in flight.
C15_OneRefreshAtATime == Cardinality(InFlight) <= 1

\* C16: UpdateFailed reaches the caller of a poll cycle only after the
\* failure was passed to the error recovery system's handle_error: a cycle
\* has ended in UpdateFailed only when an error was handled.
C16_UpdateFailedAfterHandleError ==
    \A k \in CycleSlots :
        cycles[k].result = "UpdateFailed" =>
            /\ Len(error_history) > 0
            /\ er_call.pc = "done"

(***************************************************************************)
(* Credential rotation and the cached base data (under SpecCO).            *)
(***************************************************************************)
\* A step in which authenticate() of async_refresh_credentials raises.
RotationFails ==
    /\ rotation.pc = "authenticate" /\ rotation'.pc # "authenticate"
    /\ ~rotation'.authenticated

\* A step in which authenticate() of async_refresh_credentials returns True.
RotationSucceeds ==
    /\ rotation.pc = "authenticate" /\ rotation'.pc # "authenticate"
    /\ rotation'.authenticated

\* A step in which async_refresh_credentials is called.
RotationBegins == rotation.pc # "authenticate" /\ rotation'.pc = "authenticate"

\* C17: refresh_credentials with credentials that fail authentication
\* returns failure (it does not raise), and neither its call nor its return
\* changes the cached customer data, the cached properties or the
\* published snapshot.
C17_FailedRotationKeepsCaches ==
    [][/\ RotationBegins =>
              UNCHANGED <<customer_data, properties, data>>
       /\ RotationFails =>
              /\ rotation'.pc = "done" /\ rotation'.result = "False"
              /\ UNCHANGED <<customer_data, properties, data>>
      ]_vars

\* C17's case: a rotation has failed while customer data, properties and
\* a snapshot were there, and they still are.
C17_Witness ==
    /\ rotation.pc = "done" /\ rotation.result = "False"
    /\ customer_data # None /\ properties # <<>> /\ data.present

\* C18: refresh_credentials with credentials that authenticate clears the
\* token state when it is called, and after authenticate() returned clears
\* the cached customer data and properties and begins a refresh, which
\* requests the customer again (and with it the properties, before any
\* usage); it returns success only after authenticate() succeeded and that
\* refresh has ended.
C18_RotationRefetches ==
    [][/\ RotationBegins =>
              /\ access_token' = None /\ refresh_token' = None
              /\ token_expires' = NoTime
       /\ RotationSucceeds =>
              /\ customer_data' = None /\ properties' = <<>>
              /\ \E k \in CycleSlots :
                     /\ cycles'[k].seq = rotation'.seq
                     /\ cycles'[k].seq = cycle_seq + 1
                     /\ ~cycles'[k].cached
                     /\ cycles'[k].pc \in {"customer", "authenticate"}
       /\ \A k \in CycleSlots :
              (rotation'.pc = "refresh" /\ cycles'[k].seq = rotation'.seq
               /\ cycles'[k].pc \in {"usage", "done"}
               /\ cycles'[k].cause \notin {"RedEnergyAuthError"})
              => /\ "customer" \in Range(cycles'[k].requests)
                 /\ cycles'[k].result = "ok" =>
                        IsPrefix(<<"customer", "properties">>, cycles'[k].requests)
       /\ rotation'.result = "True" =>
              /\ rotation'.authenticated
              /\ \A k \in CycleSlots :
                     cycles'[k].seq = rotation'.seq => cycles'[k].pc = "done"
      ]_vars

\* C18's case: after a first refresh had cached the base data, a rotation
\* authenticated, its refresh fetched customer and properties again and
\* published, and the rotation returned success.
C18_Witness ==
    /\ rotation.pc = "done" /\ rotation.result = "True" /\ rotation.seq > 1
    /\ data.present /\ data.last_update = rotation.seq
    /\ \E k \in CycleSlots :
           /\ cycles[k].seq = rotation.seq /\ cycles[k].result = "ok"
           /\ IsPrefix(<<"customer", "properties">>, cycles[k].requests)

\* C19: a poll cycle that begins when customer and properties are cached
\* issues no customer and no properties request (they are requested only
\* in a cycle that found them not cached), unless a rotation of the
\* credentials has cleared the caches since it began; and a cycle whose
\* customer or properties payload fails validation ends in UpdateFailed
\* without fetching any usage.
C19_BaseDataFetchedOnce ==
    \A k \in CycleSlots :
        /\ (cycles[k].cached /\ rotation.seq < cycles[k].seq) =>
               /\ "customer" \notin Range(cycles[k].requests)
               /\ "properties" \notin Range(cycles[k].requests)
        /\ cycles[k].cause = "DataValidationError" =>
               /\ cycles[k].pc = "done" /\ cycles[k].result = "UpdateFailed"
               /\ ~EndedAtUsage(cycles[k])
        /\ (cycles[k].pc = "usage" \/ EndedAtUsage(cycles[k])) =>
               cycles[k].cause # "DataValidationError"

\* C19's case: a cycle that found customer and properties cached has
\* published usage without requesting either.
C19_Witness ==
    \E k \in CycleSlots :
        /\ cycles[k].cached /\ cycles[k].result = "ok"
        /\ cycles[k].requests # <<>>
        /\ data.last_update = cycles[k].seq

(***************************************************************************)
(* The accessors (under SpecRD).                                           *)
(***************************************************************************)
\* The account, or for the accessors of a service the account's service,
\* is not in the snapshot d.
NotInSnapshot(d, name, property_id, service_type) ==
    \/ ~d.present
    \/ property_id \notin DOMAIN d.usage_data
    \/ /\ name # "get_property_data"
       /\ service_type \notin DOMAIN d.usage_data[property_id].services

\* A step that is a call of an accessor (another call than the one before).
ReadStep ==
    <<read'.name, read'.property_id, read'.service_type>>
        # <<read.name, read.property_id, read.service_type>>

\* C20: a call of get_property_data, get_service_usage, get_latest_usage,
\* get_total_cost or get_total_usage, on any snapshot the coordinator has
\* published and for any account and service, does not raise and changes
\* nothing of the coordinator; it returns None when there is no snapshot or
\* when the account or the service is not in it.
C20_AccessorsTotalAndPure ==
    [][ReadStep =>
           /\ read'.raised = "none"
           /\ UNCHANGED <<selected_accounts, services, customer_data, properties,
                          data, cycles, cycle_seq, rotation, access_token,
                          refresh_token, token_expires>>
           /\ NotInSnapshot(data, read'.name, read'.property_id,
                            read'.service_type) => read'.ret = <<>>
           /\ (read'.name = "get_property_data"
               /\ ~NotInSnapshot(data, read'.name, read'.property_id,
                                 read'.service_type))
              => read'.ret = <<data.usage_data[read'.property_id]>>
      ]_vars

\* C20's case: get_latest_usage was called for a service that is in the
\* snapshot with no daily entries, and returned None.
C20_Witness ==
    /\ read.name = "get_latest_usage" /\ read.raised = "none" /\ read.ret = <<>>
    /\ ~NotInSnapshot(data, read.name, read.property_id, read.service_type)
    /\ data.usage_data[read.property_id].services[read.service_type]
           .usage_data.usage_data = <<>>

(***************************************************************************)
(* The validators of the provider's payloads (under SpecDV).               *)
(***************************************************************************)
\* validate_properties_data was called on the answer to get_properties.
PropertiesValidated == validation.fn = "validate_properties_data"

\* validate_usage_data was called on the answer to get_usage_data and
\* returned.
UsageValidated ==
    /\ validation.fn = "validate_usage_data"
    /\ ~validation.again
    /\ validation.raised = "none"

\* C21: validate_properties_data raises DataValidationError when the
\* payload is not a list, is empty or has no element that validates; and
\* otherwise returns the elements that validate individually, validated, in
\* the order of the payload, without raising.
C21_InvalidPropertiesSkipped ==
    PropertiesValidated =>
        LET valid == SelectSeq(raw_properties.items,
                         LAMBDA e : validate_single_property(e).raised = "none")
        IN IF ~raw_properties.islist \/ valid = <<>>
           THEN validation.raised = "DataValidationError"
           ELSE /\ validation.raised = "none"
                /\ validation.ret[1] =
                       [i \in 1..Len(valid) |->
                           validate_single_property(valid[i]).ret[1]]

\* C22: every service of every property validate_properties_data returns
\* has a non-empty consumer_number.
C22_ServicesHaveConsumerNumber ==
    (PropertiesValidated /\ validation.raised = "none") =>
        \A i \in 1..Len(validation.ret[1]) :
            \A j \in 1..Len(validation.ret[1][i].services) :
                Truthy(validation.ret[1][i].services[j].consumer_number)

\* The consumer record is malformed: no dictionary, or without
\* consumerNumber.
Malformed(consumer) == ~consumer.isdict \/ ~Truthy(consumer.consumerNumber)

\* The consumers that the properties of the payload carry, as (i, j).
Carried(items) ==
    UNION {{<<i, j>> : j \in 1..Len(items[i].consumers)} : i \in 1..Len(items)}

\* C23: when the payload is a list of properties with identifiers that
\* carry N services of which exactly one is malformed,
\* validate_properties_data returns, and the properties it returns hold
\* N-1 services, none of them the malformed one.
C23_MalformedServiceOmitted ==
    LET items == raw_properties.items
        malformed == {p \in Carried(items) : Malformed(items[p[1]].consumers[p[2]])}
    IN (/\ PropertiesValidated
        /\ raw_properties.islist
        /\ items # <<>>
        /\ \A i \in 1..Len(items) :
               items[i].isdict /\ Truthy(items[i].propertyPhysicalNumber)
        /\ Cardinality(malformed) = 1)
       => /\ validation.raised = "none"
          /\ Cardinality(Carried(validation.ret[1])) = Cardinality(Carried(items)) - 1
          /\ \A i \in 1..Len(validation.ret[1]) :
                 \A j \in 1..Len(validation.ret[1][i].services) :
                     Truthy(validation.ret[1][i].services[j].consumer_number)

\* C24: every daily entry validate_usage_data returns, and both totals,
\* have usage >= 0 and cost >= 0.
C24_NoNegativeAmounts ==
    UsageValidated =>
        /\ \A i \in 1..Len(validation.ret[1].usage_data) :
               /\ validation.ret[1].usage_data[i].usage >= 0
               /\ validation.ret[1].usage_data[i].cost >= 0
        /\ validation.ret[1].total_usage >= 0
        /\ validation.ret[1].total_cost >= 0

\* C25: validate_usage_data called again on the daily entries it returned
\* returns the same totals as the first call: the totals are the sums of
\* the returned entries' amounts at 2 decimals.
C25_TotalsReproduced ==
    [][(validation'.again /\ ~validation.again) =>
          /\ validation'.raised = "none"
          /\ validation'.ret[1].total_usage = validation.ret[1].total_usage
          /\ validation'.ret[1].total_cost = validation.ret[1].total_cost]_vars

\* The snapshot of a cycle that stored the validated usage for the
\* electricity service c1 of the property p1.
SnapshotOf(usage) ==
    LET property == [id |-> "p1",
                     services |-> <<Service("electricity", "c1", TRUE)>>]
    IN Snapshot("customer", <<property>>,
                StoreUsage(<<>>, property, property.services[1], usage, 1), 1)

\* C30: get_latest_usage returns the usage of the daily entry with the
\* latest date, in whatever order the provider listed the days.
C30_LatestIsChronologicallyLast ==
    (UsageValidated /\ validation.ret[1].usage_data # <<>>) =>
        LET usage_data == validation.ret[1].usage_data
            latest == get_latest_usage(SnapshotOf(validation.ret[1]),
                                       "p1", "electricity")
        IN /\ latest.raised = "none"
           /\ \E i \in 1..Len(usage_data) :
                  /\ \A j \in 1..Len(usage_data) :
                         usage_data[j].date <= usage_data[i].date
                  /\ latest.ret = <<usage_data[i].usage>>

(***************************************************************************)
(* The calculation cache (under SpecPC).                                   *)
(***************************************************************************)
\* The step is a call of get_cached_calculation.
CacheCallStep == cache_call'.n = cache_call.n + 1

\* C26: a call of get_cached_calculation for a key that was computed less
\* than the TTL ago counts one hit and returns the stored value without
\* calling the compute function and without touching the cache; any other
\* call counts one miss, calls the compute function once and, when that
\* returns, stores its result with the current time and returns it. No call
\* changes both counters.
C26_CachedWithinTtl ==
    [][CacheCallStep =>
          LET key == cache_call'.key
              fresh == /\ key \in DOMAIN processed_cache
                       /\ now - processed_cache[key].time < CacheTtl
          IN IF fresh
             THEN /\ cache_hits' = cache_hits + 1
                  /\ cache_misses' = cache_misses
                  /\ cache_call'.computed = 0
                  /\ cache_call'.raised = "none"
                  /\ cache_call'.ret = <<processed_cache[key].result>>
                  /\ processed_cache' = processed_cache
             ELSE /\ cache_misses' = cache_misses + 1
                  /\ cache_hits' = cache_hits
                  /\ cache_call'.computed = 1
                  /\ cache_call'.raised = "none" =>
                         /\ key \in DOMAIN processed_cache'
                         /\ processed_cache'[key].time = now
                         /\ cache_call'.ret = <<processed_cache'[key].result>>
                         /\ \A k \in DOMAIN processed_cache \ {key} :
                                /\ k \in DOMAIN processed_cache'
                                /\ processed_cache'[k] = processed_cache[k]
    ]_vars

\* A key is served from the cache, and later, exactly one TTL after it was
\* computed, it is computed again.
C26_Witness ==
    /\ cache_hits >= 1
    /\ cache_call.found
    /\ cache_call.age = CacheTtl
    /\ ~cache_call.hit
    /\ cache_call.computed = 1
    /\ cache_call.raised = "none"

(***************************************************************************)
(* The bulk refresh of coordinators (under SpecBR).                        *)
(***************************************************************************)
\* The coordinators whose refresh task is running.
RefreshesInFlight == bulk_refresh.started \ DOMAIN bulk_refresh.outcomes

\* C27: the refreshes in flight are at most batch_size coordinators of one
\* batch, consecutive in the list; a refresh is started only when all
\* coordinators before its batch have ended theirs; and when the call
\* returns every coordinator was refreshed, however the others ended, and
\* the result holds one entry for every coordinator passed in, the outcome
\* of its refresh.
C27_BatchedBulkRefresh ==
    LET b == bulk_refresh
        n == Len(b.coordinators)
    IN /\ Cardinality(RefreshesInFlight) <= b.batch_size
       /\ RefreshesInFlight \subseteq Batch(b.coordinators, b.i, b.batch_size)
       /\ b.started \subseteq 1..(b.i + b.batch_size)
       /\ 1..b.i \subseteq DOMAIN b.outcomes
       /\ b.pc = "done" =>
              /\ DOMAIN b.outcomes = 1..n
              /\ Cardinality(DOMAIN b.results) = n
              /\ \A j \in 1..n :
                     b.results[b.coordinators[j]] = b.outcomes[j]

(***************************************************************************)
(* The bulk update path (under SpecBU).                                    *)
(***************************************************************************)
\* C28: a run of the bulk update path that ends has either failed to
\* authenticate or to get the base data, or has started the usage fetches
\* of the selected properties and joined them all: it returns a snapshot,
\* or raises UpdateFailed because no property produced usage data.
C28_BulkFetchesJoined ==
    bulk.pc = "done" =>
        \/ bulk.cause \in {"RedEnergyAuthError", "DataValidationError",
                           "ClientResponseError"}
        \/ bulk.result = "ok"
        \/ bulk.cause = "UpdateFailed"

(***************************************************************************)
(* The error history (under SpecEH).                                       *)
(***************************************************************************)

\* The step is the start of an async_handle_error call.
ErArrival == ErrorsHandled' = ErrorsHandled + 1

\* C29: after any sequence of handle_error calls the error history holds at
\* most the 1000 most recent error records in arrival order (a new record
\* goes to the end and, once the history is full, only the oldest record
\* leaves), the resolved and unresolved counts that get_error_statistics
\* reports sum to its total_errors, and a record is marked resolved exactly
\* when its recovery succeeded: the record of a finished call is resolved
\* iff the call returned True, and no other record changes.
C29_HistoryBoundedAndResolved ==
    [][LET stats == get_error_statistics(error_history')
           n == Len(error_history')
           kept == IF ErArrival
                   THEN IF Len(error_history) >= HistoryMaxLen
                        THEN Tail(error_history) ELSE error_history
                   ELSE SubSeq(error_history, 1, Len(error_history) - 1)
       IN /\ n <= HistoryMaxLen
          /\ stats.resolved_errors + stats.unresolved_errors = stats.total_errors
          /\ stats.total_errors = n
          /\ n >= 1 => /\ SubSeq(error_history', 1, n - 1) = kept
                       /\ er_call'.record = n
                       /\ error_history'[n].error_type = er_call'.error_type
                       /\ error_history'[n].resolved =
                              (er_call'.pc = "done" /\ er_call'.result)]_vars

\* The history is full and has lost its oldest records (among them the one
\* unresolved record of the long run), and the call whose record is the
\* newest returned True after another call had returned False.
C29_Witness ==
    /\ Len(error_history) = HistoryMaxLen
    /\ ErrorsHandled > HistoryMaxLen
    /\ er_call.pc = "done" /\ er_call.result
    /\ error_history[HistoryMaxLen].resolved
    /\ ~error_history[HistoryMaxLen - 1].resolved
    /\ error_history[1].resolved
    /\ get_error_statistics(error_history).unresolved_errors = 1

\* The days of the answer to get_usage_data that have a usageDate.
DatedEntries ==
    SelectSeq(raw_usage.items,
              LAMBDA entry : entry.isdict /\ entry.usageDate # NoDate)

\* C31: validate_usage_data raises DataValidationError for a payload that is
\* not a list; otherwise it returns, without raising, exactly one daily
\* entry per input entry that has a usageDate, in input order, whose usage
\* and cost are the sums of that entry's half-hour intervals (at the 3 and 2
\* decimals a daily entry carries), and from_date and to_date are the least
\* and the greatest date of the returned entries, empty when there is none.
C31_OneDailyEntryPerDatedEntry ==
    (validation.fn = "validate_usage_data" /\ ~validation.again) =>
        IF ~raw_usage.islist
        THEN validation.raised = "DataValidationError"
        ELSE /\ validation.raised = "none"
             /\ LET out == validation.ret[1]
                    n == Len(out.usage_data)
                    surviving == {out.usage_data[i].date : i \in 1..n}
                IN /\ n = Len(DatedEntries)
                   /\ \A i \in 1..n :
                          LET halfHours == DatedEntries[i].halfHours
                          IN /\ out.usage_data[i].date = DatedEntries[i].usageDate
                             /\ \A k \in 1..Len(halfHours) : halfHours[k].numeric
                             /\ out.usage_data[i].usage =
                                    Round(Sum([k \in 1..Len(halfHours) |->
                                        halfHours[k].consumptionKwh]), 3)
                             /\ out.usage_data[i].cost =
                                    Round(Sum([k \in 1..Len(halfHours) |->
                                        halfHours[k].consumptionDollarIncGst]), 2)
                   /\ out.from_date =
                          (IF surviving = {} THEN NoDate
                           ELSE CHOOSE a \in surviving : \A b \in surviving : a <= b)
                   /\ out.to_date =
                          (IF surviving = {} THEN NoDate
                           ELSE CHOOSE a \in surviving : \A b \in surviving : a >= b)

\* The service of property_data passes the selection as it is after the step.
SelectedNow(property_id, service) ==
    /\ property_id \in selected_accounts'
    /\ service.type \in services'
    /\ service.active
    /\ Truthy(service.consumer_number)

\* C32: in every poll cycle usage is requested only for accounts in the
\* selected accounts and, within them, only for services whose type is
\* selected, that are active and that have a consumer number; and every
\* snapshot that is published holds usage of no other account or service,
\* also after update_account_selection changed the selection.
C32_OnlySelectedFetchedAndPublished ==
    [][/\ \A k \in CycleSlots :
              (/\ cycles'[k].pc = "usage"
               /\ Len(cycles'[k].requests) > Len(cycles[k].requests)
               /\ cycles'[k].seq = cycles[k].seq)
              => LET c == cycles'[k]
                 IN SelectedNow(c.props[c.pos[1]].id,
                                c.props[c.pos[1]].services[c.pos[2]])
       /\ (data' # data /\ data'.present)
              => \A property_id \in DOMAIN data'.usage_data :
                     \A type \in DOMAIN data'.usage_data[property_id].services :
                         \E j \in 1..Len(data'.usage_data[property_id].property.services) :
                             LET service ==
                                 data'.usage_data[property_id].property.services[j]
                             IN /\ service.type = type
                                /\ service.consumer_number =
                                       data'.usage_data[property_id].services[type].consumer_number
                                /\ SelectedNow(property_id, service)]_vars

(***************************************************************************)
(* Errors without a recovery policy (under SpecER).                        *)
(***************************************************************************)

\* The error types _setup_default_recovery_actions gives no actions.
NoPolicyTypes ==
    {"api_data_invalid", "config_invalid", "network_timeout", "unknown"}

\* C33: a handle_error call with an error type that has no recovery policy
\* invokes no recovery action and returns false, and (unless the open
\* breaker of its key turned it away) records a failure on the breaker of
\* its key: failure_count goes up by one, last_failure_time is the time of
\* the call, and the breaker is OPEN once failure_threshold such errors were
\* recorded in a row.
C33_NoPolicyFailsAndCounts ==
    [][(ErBegin /\ er_call'.error_type \in NoPolicyTypes) =>
          LET k == er_call'.key
              before == IF k \in DOMAIN circuit_breakers
                        THEN circuit_breakers[k].failure_count ELSE 0
          IN /\ er_call'.pc = "done"
             /\ er_call'.invoked = <<>>
             /\ ~er_call'.result
             /\ ~error_history'[er_call'.record].resolved
             /\ ~er_call'.gated =>
                    /\ circuit_breakers'[k].failure_count = before + 1
                    /\ circuit_breakers'[k].last_failure_time = now
                    /\ (before + 1 >= DefaultFailureThreshold)
                           <=> (circuit_breakers'[k].state = "OPEN")
                    /\ recovery_stats'.failed_recoveries =
                           recovery_stats.failed_recoveries + 1]_vars

\* The fifth error in a row of a type without a policy has just been
\* handled: no action was invoked, and the breaker of its key is open.
C33_Witness ==
    /\ raised_type \in NoPolicyTypes
    /\ er_call.pc = "done" /\ ~er_call.gated /\ ~er_call.result
    /\ er_call.invoked = <<>>
    /\ circuit_breakers[er_call.key].failure_count = DefaultFailureThreshold
    /\ circuit_breakers[er_call.key].state = "OPEN"
    /\ Len(error_history) = DefaultFailureThreshold

(***************************************************************************)
(* Termination (under SpecLV).                                             *)
(***************************************************************************)

\* How often the call has invoked the recovery action.
Invocations(action) ==
    Cardinality({j \in 1..Len(er_call.invoked) : er_call.invoked[j] = action})

\* C34: every poll cycle eventually ends, PUBLISHED (its snapshot returned)
\* or FAILED (UpdateFailed raised), and every handle_error call eventually
\* returns, having invoked each recovery action of the error type at most
\* max_attempts times, also when the provider never responds and when every
\* recovery action fails.
C34_CyclesAndRecoveryTerminate ==
    /\ \A k \in CycleSlots :
           (cycles[k].pc \notin {"idle", "done"})
               ~> (/\ cycles[k].pc = "done"
                   /\ cycles[k].result \in {"ok", "UpdateFailed"})
    /\ (er_call.pc = "action") ~> (er_call.pc = "done")
    /\ [](er_call.pc # "idle" =>
             \A i \in 1..Len(RecoveryActions(er_call.error_type)) :
                 Invocations(RecoveryActions(er_call.error_type)[i].action)
                     <= RecoveryActions(er_call.error_type)[i].max_attempts)

\* The first poll cycle has returned its snapshot and the second has ended
\* in UpdateFailed because the provider did not respond.
C34_Witness ==
    /\ \E k \in CycleSlots :
           /\ cycles[k].pc = "done"
           /\ cycles[k].result = "UpdateFailed"
           /\ cycles[k].cause = "TimeoutError"
    /\ cycle_seq = 2
    /\ data.present

(***************************************************************************)
(* Failed authentication and refresh (under Spec).                         *)
(***************************************************************************)

\* The token state after the step.
TokenStateAfter ==
    [access_token |-> access_token', refresh_token |-> refresh_token',
     token_expires |-> token_expires']

\* C35: a failed authenticate and a failed token refresh leave access_token,
\* refresh_token and the expiry exactly as they were before the call: a step
\* of a run of authenticate() changes the token state only when it is the
\* token exchange and the run returns success, and a step of a bearer call
\* changes it only when it is the answer of the token endpoint to the
\* refresh and the refresh succeeds; and a refresh that succeeds keeps the
\* old refresh_token (under Spec a 200 answer may carry none).
C35_FailureKeepsTokenState ==
    [][/\ (auth.pc \notin {"idle", "done"} /\ auth' # auth)
              => (TokenStateAfter # TokenState
                     => auth.pc = "exchange" /\ auth'.result = "success")
       /\ call' # call
              => /\ TokenStateAfter # TokenState
                        => /\ call.pc = "refresh_token_post"
                           /\ call'.pc = "await_response"
                 /\ (/\ call.pc = "refresh_token_post"
                     /\ call'.pc = "await_response"
                     /\ refresh_token' # refresh_token)
                        => Truthy(refresh_token')]_vars

(***************************************************************************)
(* The circuit breaker's fields (under SpecCB).                            *)
(***************************************************************************)

\* C36: in every reachable state of a circuit breaker failure_count >= 0,
\* CLOSED implies failure_count < failure_threshold, and OPEN or HALF_OPEN
\* implies failure_count >= failure_threshold with a last_failure_time
\* recorded.
C36_BreakerFieldsConsistent ==
    /\ cb.failure_count >= 0
    /\ cb.state \in {"CLOSED", "OPEN", "HALF_OPEN"}
    /\ cb.state = "CLOSED" => cb.failure_count < cb.failure_threshold
    /\ cb.state \in {"OPEN", "HALF_OPEN"} =>
           /\ cb.failure_count >= cb.failure_threshold
           /\ cb.last_failure_time # NoTime

\* A breaker that opened, went HALF_OPEN, failed again and is HALF_OPEN once
\* more: its count is above the threshold.
C36_Witness ==
    /\ cb.state = "HALF_OPEN"
    /\ cb.failure_count > cb.failure_threshold
    /\ cb.last_failure_time # NoTime
    /\ cb.last_failure_time > 0

(***************************************************************************)
(* The caches of the base data (under SpecRD).                             *)
(***************************************************************************)

\* The step takes the run in slot k past "Get customer and property data if
\* not cached" without fetching them.
SkipsBaseData(k) ==
    /\ cycles[k].pc \in {"idle", "done", "authenticate"}
    /\ cycles'[k] # cycles[k]
    /\ cycles'[k].pc \in {"usage", "done"}
    /\ cycles'[k].cause # "RedEnergyAuthError"

\* C37: after any sequence of poll cycles, also of cycles that fail between
\* the customer fetch and the properties fetch or validation, customer data
\* is cached only together with a non-empty validated properties list (but
\* for the time a run is awaiting the properties), so no later cycle skips
\* the properties fetch while the properties cache is empty.
C37_CustomerCachedWithProperties ==
    [][/\ (\A k \in CycleSlots : cycles'[k].pc # "properties")
              => (customer_data' # None => properties' # <<>>)
       /\ \A k \in CycleSlots : SkipsBaseData(k) => properties # <<>>]_vars

(***************************************************************************)
(* A rotation of the credentials that fails (under SpecRC, where a call    *)
(* begins with the initial credentials stored and the token of an earlier  *)
(* refresh held, and nothing else runs until it returns).                  *)
(***************************************************************************)

\* C38: a refresh_credentials call that fails authentication leaves the
\* coordinator's stored username, password and client_id and the API
\* client's token state as they were before the call: the initial
\* credentials and the token of the earlier refresh.
C38_FailedRotationKeepsCredentials ==
    [][RotationFails =>
          /\ rotation'.credentials = "initial"
          /\ access_token' = GoodBody.access_token
          /\ refresh_token' = GoodBody.refresh_token
          /\ token_expires' # NoTime]_vars

(***************************************************************************)
(* Errors that arrive while a breaker is open (under SpecER).              *)
(***************************************************************************)

\* C39: a handle_error call turned away by the open breaker of its key
\* records no failure and does not move last_failure_time, and a
\* handle_error call that finds the breaker of its key OPEN more than
\* recovery_timeout after the last recorded failure is not turned away: it
\* attempts recovery, with the breaker HALF_OPEN while its actions run.
C39_OpenBreakerNotHeldOpen ==
    [][LET k == er_call'.key
       IN (/\ ErBegin
           /\ k \in DOMAIN circuit_breakers
           /\ circuit_breakers[k].state = "OPEN")
          => /\ er_call'.gated =>
                    /\ circuit_breakers'[k].failure_count
                           = circuit_breakers[k].failure_count
                    /\ circuit_breakers'[k].last_failure_time
                           = circuit_breakers[k].last_failure_time
                    /\ circuit_breakers'[k].state = "OPEN"
                    /\ recovery_stats' = recovery_stats
             /\ now - circuit_breakers[k].last_failure_time
                    > circuit_breakers[k].recovery_timeout
                 => /\ ~er_call'.gated
                    /\ \/ /\ er_call'.pc = "action"
                          /\ er_call'.invoked # <<>>
                          /\ circuit_breakers'[k].state = "HALF_OPEN"
                       \/ /\ er_call'.pc = "done"
                          /\ RecoveryActions(er_call'.error_type) = <<>>
                          /\ circuit_breakers'[k].last_failure_time = now
      ]_vars

\* C39's case: a breaker was opened, a call for its key was turned away
\* later than the failure that opened it (its record has no recovery
\* attempt), and more than a recovery timeout after that failure a call for
\* the key is attempting recovery.
C39_Witness ==
    /\ er_call.pc = "action" /\ ~er_call.gated
    /\ er_call.record > DefaultFailureThreshold + 1
    /\ circuit_breakers[er_call.key].state = "HALF_OPEN"
    /\ DOMAIN circuit_breakers = {er_call.key}
    /\ now - circuit_breakers[er_call.key].last_failure_time
           > circuit_breakers[er_call.key].recovery_timeout
    /\ \E i \in 1..(er_call.record - 1) :
           error_history[i].recovery_attempts = 0

(***************************************************************************)
(* The steps of the configuration flow (under SpecCF).                     *)
(***************************************************************************)
\* A step in which async_step_user handles the credentials submitted.
UserStep == Shown("user") /\ flow'.handled = "user"

\* A step in which async_step_account_select handles a selection.
AccountStep == Shown("account_select") /\ flow'.handled = "account_select"

\* The error the user form shows for a validation failure.
MatchingError(failure) ==
    CASE failure = "authentication" -> <<"base", "auth_failed">>
      [] failure = "connection" -> <<"base", "cannot_connect">>
      [] failure = "no_accounts" -> <<"base", "no_accounts">>

\* C40: a successful user step (not aborted for an entry that exists) with
\* exactly one account selects it and shows the service selection, and with
\* more than one shows the account selection; the account selection shows
\* the service selection only for a non-empty selection, and shows itself
\* again otherwise; a user step whose validation fails for authentication,
\* connection or no accounts shows the user form again with auth_failed,
\* cannot_connect or no_accounts; the entry is created only in the
\* service-selection step.
C40_ConfigFlowSteps ==
    [][/\ (UserStep /\ flow'.failure = "none" /\ flow'.type # "abort") =>
              /\ flow'.type = "form"
              /\ IF Len(flow'.accounts) = 1
                 THEN /\ flow'.selected_accounts = {flow'.accounts[1].id}
                      /\ flow'.step_id = "service_select"
                 ELSE /\ Len(flow'.accounts) > 1
                      /\ flow'.step_id = "account_select"
       /\ (UserStep /\ flow'.failure \in {"authentication", "connection",
                                          "no_accounts"}) =>
              /\ flow'.type = "form" /\ flow'.step_id = "user"
              /\ flow'.errors = MatchingError(flow'.failure)
       /\ AccountStep =>
              /\ flow'.type = "form"
              /\ IF flow'.step_id = "service_select"
                 THEN flow'.selected_accounts # {}
                 ELSE /\ flow'.step_id = "account_select"
                      /\ flow'.errors # NoErrors
                      /\ flow'.selected_accounts = flow.selected_accounts
       /\ (flow'.entry # flow.entry \/ flow'.type = "create_entry") =>
              /\ Shown("service_select")
              /\ flow'.handled = "service_select"
              /\ flow'.type = "create_entry" /\ flow'.entry # <<>>
      ]_vars

====
